---------------------------- MODULE Spec2Model ----------------------------
(***************************************************************************)
(* A model of src/src/scraper.py (NetflixOverseerrBridge): the scheduler   *)
(* loop run(), the two request entry points request_tv_show_seasons and    *)
(* request_in_overseerr, the existing-season lookup, the season extractor  *)
(* and the startup checks.  Strings are sequences of characters, the       *)
(* request service is the environment: every HTTP call draws its answer    *)
(* from a small set of answers.                                            *)
(***************************************************************************)
EXTENDS Integers, Sequences, FiniteSets

(***************************************************************************)
(* Bounds of the model.                                                    *)
(***************************************************************************)
\* the largest season number a feed label names and the service reports
MaxSeason == 2
\* the largest number of rows of one category the feed ranks in a pass
MaxRows == 1
\* the largest number of season records a response of the service lists
MaxRecords == 2
\* the largest number of results the search lists
MaxResults == 2
\* the most rows of a category a feed holds beyond the ten that are kept
MaxOver == 1
\* the largest number of tokens of a season label
MaxLabel == 3
\* the largest number of entries of a list of the summary the reporter reads
MaxEntries == 2
\* the instants of the clock in an hour
TicksPerHour == 2
\* the longest fixed interval between passes, in hours
MaxInterval == 2

(***************************************************************************)
(* Strings: a title is a sequence of characters.                           *)
(***************************************************************************)
\* str.lower() on one character
LowerChar(c) == IF c = "X" THEN "x" ELSE IF c = "Y" THEN "y" ELSE c

\* str.lower()
Lower(s) == [k \in 1..Len(s) |-> LowerChar(s[k])]

\* str.startswith(prefix)
StartsWith(s, p) == Len(p) <= Len(s) /\ SubSeq(s, 1, Len(p)) = p

\* the titles the feed ranks: a title, and a title that continues it with " ("
TitleX == <<"X">>
TitleXY == <<"X", " ", "(", "Y">>
Titles == {TitleX, TitleXY}

(***************************************************************************)
(* Season labels (the feed's season_title) and the Season Extractor.       *)
(* A label is a sequence of tokens: the words the extractor looks for,     *)
(* digits, and other text.                                                 *)
(***************************************************************************)
Digits == {"0", "1", "2", "3", "4", "5", "6", "7", "8", "9"}

DigitVal(d) ==
    CASE d = "0" -> 0 [] d = "1" -> 1 [] d = "2" -> 2 [] d = "3" -> 3
      [] d = "4" -> 4 [] d = "5" -> 5 [] d = "6" -> 6 [] d = "7" -> 7
      [] d = "8" -> 8 [] d = "9" -> 9

DigitOf(n) ==
    CASE n = 0 -> "0" [] n = 1 -> "1" [] n = 2 -> "2" [] n = 3 -> "3"
      [] n = 4 -> "4" [] n = 5 -> "5" [] n = 6 -> "6" [] n = 7 -> "7"
      [] n = 8 -> "8" [] n = 9 -> "9"

\* None as a season number: the label names no season
Indeterminate == -1

\* the literal label 'N/A'
LabelNA == <<"N/A">>

\* the length of the run of digits of s that starts at position k
RECURSIVE DigitRun(_, _)
DigitRun(s, k) ==
    IF k <= Len(s) /\ s[k] \in Digits THEN 1 + DigitRun(s, k + 1) ELSE 0

\* int() of the digits s[k..k+n-1]
RECURSIVE IntOf(_, _, _)
IntOf(s, k, n) ==
    IF n = 0 THEN 0 ELSE IntOf(s, k, n - 1) * 10 + DigitVal(s[k + n - 1])

\* re.search(r'Season (\d+)'): the positions where 'Season ' is followed by a digit
SeasonHits(s) ==
    {k \in 1..Len(s) : s[k] = "Season " /\ DigitRun(s, k + 1) > 0}

Min(S) == CHOOSE x \in S : \A y \in S : x <= y
Max(S) == CHOOSE x \in S : \A y \in S : x >= y

\* a variant that looks for 'Season <n>' before 'Limited Series'
ExtractSeasonNumberSeasonFirst(season_title) ==
    IF season_title = <<>> \/ season_title = LabelNA
    THEN Indeterminate
    ELSE IF SeasonHits(season_title) # {}
    THEN LET k == Min(SeasonHits(season_title))
         IN  IntOf(season_title, k + 1, DigitRun(season_title, k + 1))
    ELSE IF \E k \in 1..Len(season_title) : season_title[k] = "Limited Series"
    THEN 1
    ELSE Indeterminate

\* _extract_season_number
ExtractSeasonNumber(season_title) ==
    IF season_title = <<>> \/ season_title = LabelNA
    THEN Indeterminate
    ELSE IF \E k \in 1..Len(season_title) : season_title[k] = "Limited Series"
    THEN 1
    ELSE IF SeasonHits(season_title) # {}
    THEN LET k == Min(SeasonHits(season_title))
         IN  IntOf(season_title, k + 1, DigitRun(season_title, k + 1))
    ELSE Indeterminate

\* the label '<show>: Season <n>'
SeasonLabel(n) == <<"Show: ", "Season ", DigitOf(n)>>

(***************************************************************************)
(* Sequences of numbers: sorted() and sorted(list(set())).                 *)
(***************************************************************************)
\* the set of the elements of a sequence
Range(s) == {s[k] : k \in 1..Len(s)}

\* sorted(list(S)) of a set of integers
RECURSIVE SortedSet(_)
SortedSet(S) ==
    IF S = {} THEN <<>> ELSE <<Min(S)>> \o SortedSet(S \ {Min(S)})

\* s with x put before the first element greater than x
RECURSIVE InsertSorted(_, _)
InsertSorted(s, x) ==
    IF s = <<>> THEN <<x>>
    ELSE IF x < Head(s) THEN <<x>> \o s
    ELSE <<Head(s)>> \o InsertSorted(Tail(s), x)

\* sorted(s): duplicates are kept
RECURSIVE SortSeq(_)
SortSeq(s) ==
    IF s = <<>> THEN <<>>
    ELSE InsertSorted(SortSeq(SubSeq(s, 1, Len(s) - 1)), s[Len(s)])

\* list(range(a, b + 1))
RangeList(a, b) == [k \in 1..(IF b >= a THEN b - a + 1 ELSE 0) |-> a + k - 1]

\* the concatenation of the sequences of a sequence
RECURSIVE Flatten(_)
Flatten(ss) == IF ss = <<>> THEN <<>> ELSE Head(ss) \o Flatten(Tail(ss))

(***************************************************************************)
(* HTTP.  An answer has a status code, 0 for a transport failure (no       *)
(* answer at all), and a body.  The session retries a GET answered 500,    *)
(* 502, 503 or 504 three times and then raises; a POST is not retried.     *)
(* The answer of a GET is [code, json, body]: json tells whether the body  *)
(* parses.  The answer of the create call is [code, body]: body is the     *)
(* error message, NoMessage or NotJson.                                    *)
(***************************************************************************)
\* a body that is not JSON: response.json() raises
NotJson == "NotJson"

\* the create call got no answer
Exc == [code |-> 0, body |-> NotJson]

\* a GET's answer: no answer, a status with no JSON body, a JSON body
NoAnswer(empty) == [code |-> 0, json |-> FALSE, body |-> empty]
Status(code, empty) == [code |-> code, json |-> FALSE, body |-> empty]
Json(code, body) == [code |-> code, json |-> TRUE, body |-> body]

\* Retry(status_forcelist=[500, 502, 503, 504])
StatusForcelist == {500, 502, 503, 504}

\* session.get: what the caller sees when the server keeps giving this answer
SessionGet(ans) == IF ans.code \in StatusForcelist THEN [ans EXCEPT !.code = 0] ELSE ans

\* whether the call raised
Raised(ans) == ans.code = 0

(***************************************************************************)
(* The Existing-Request Inspector.  A season record is [seasonNumber,      *)
(* status, available]; a missing key reads as its default (0, 0, FALSE).   *)
(***************************************************************************)
\* Status 2 = PENDING, 3 = APPROVED, 5 = AVAILABLE
AcceptedStatus == {2, 3, 5}

\* a variant that counts every season but the specials
SeasonCountsAny(season) == season.seasonNumber > 0

\* season_number > 0 and (status in [2, 3, 5] or is_available)
SeasonCounts(season) ==
    season.seasonNumber > 0 /\ (season.status \in AcceptedStatus \/ season.available)

\* the season numbers of the seasons of a list that count
CountedNumbers(seasons) ==
    LET kept == SelectSeq(seasons, SeasonCounts)
    IN  [k \in 1..Len(kept) |-> kept[k].seasonNumber]

\* the season numbers > 0 of a list, whatever the season's own status
PositiveNumbers(seasons) ==
    LET Pos(season) == season.seasonNumber > 0
        kept == SelectSeq(seasons, Pos)
    IN  [k \in 1..Len(kept) |-> kept[k].seasonNumber]

\* _extract_seasons_from_requests: results is the 'results' list
ExtractSeasonsFromRequests(results, media_id) ==
    LET Mine(request) ==
            request.tmdbId = media_id /\ request.status \in AcceptedStatus
        mine == SelectSeq(results, Mine)
        found == Flatten([k \in 1..Len(mine) |-> PositiveNumbers(mine[k].seasons)])
    IN  SortedSet(Range(found))

\* _extract_seasons_from_media: 'seasons', each request's 'seasons', mediaInfo's
ExtractSeasonsFromMedia(media_details) ==
    LET reqs == media_details.requests
        found == CountedNumbers(media_details.seasons)
                   \o Flatten([k \in 1..Len(reqs) |-> CountedNumbers(reqs[k].seasons)])
                   \o CountedNumbers(media_details.mediaInfo)
    IN  SortedSet(Range(found))

\* the TV-details branch of get_existing_tv_requests
ExtractSeasonsFromTv(tv_details) == SortSeq(CountedNumbers(tv_details.seasons))

\* the paths of the three lookup endpoints
PathRequests == "GET /api/v1/request"
PathMedia == "GET /api/v1/media/{id}"
PathTv == "GET /api/v1/tv/{id}"

\* a call of the lookup: the endpoint and the status the code saw
Get(path, r) == [path |-> path, code |-> r.code]

\* a variant that takes season 1 to exist when the TV-details endpoint fails
LookupTvGuesses(gets, tv_answer) ==
    LET r == SessionGet(tv_answer)
        g == Append(gets, Get(PathTv, r))
    IN  IF ~Raised(r) /\ r.code = 200 /\ r.json
        THEN [seasons |-> ExtractSeasonsFromTv(r.body), gets |-> g]
        ELSE [seasons |-> <<1>>, gets |-> g]

\* the TV-details fallback of get_existing_tv_requests
LookupTv(gets, tv_answer) ==
    LET r == SessionGet(tv_answer)
        g == Append(gets, Get(PathTv, r))
    IN  IF Raised(r) THEN [seasons |-> <<>>, gets |-> g]
        ELSE IF r.code = 200
        THEN IF ~r.json THEN [seasons |-> <<>>, gets |-> g]
             ELSE [seasons |-> ExtractSeasonsFromTv(r.body), gets |-> g]
        ELSE [seasons |-> <<>>, gets |-> g]

\* a variant that goes on to the TV-details endpoint after a 404
LookupMediaGoesOn(gets, answers) ==
    LET r == SessionGet(answers.media)
        g == Append(gets, Get(PathMedia, r))
    IN  IF Raised(r) THEN [seasons |-> <<>>, gets |-> g]
        ELSE IF r.code = 200
        THEN IF ~r.json THEN [seasons |-> <<>>, gets |-> g]
             ELSE [seasons |-> ExtractSeasonsFromMedia(r.body), gets |-> g]
        ELSE LookupTv(g, answers.tv)

\* the media-details fallback of get_existing_tv_requests
LookupMedia(gets, answers) ==
    LET r == SessionGet(answers.media)
        g == Append(gets, Get(PathMedia, r))
    IN  IF Raised(r) THEN [seasons |-> <<>>, gets |-> g]
        ELSE IF r.code = 200
        THEN IF ~r.json THEN [seasons |-> <<>>, gets |-> g]
             ELSE [seasons |-> ExtractSeasonsFromMedia(r.body), gets |-> g]
        ELSE IF r.code = 404 THEN [seasons |-> <<>>, gets |-> g]
        ELSE LookupTv(g, answers.tv)

\* a variant that queries the media-details endpoint whatever the requests
\* listing gave
LookupAlwaysMedia(media_id, answers) ==
    LET r == SessionGet(answers.req)
    IN  LookupMedia(<<Get(PathRequests, r)>>, answers)

\* a variant that queries no endpoint
LookupSkipped(media_id, answers) == [seasons |-> <<>>, gets |-> <<>>]

\* get_existing_tv_requests: the seasons returned and the endpoints queried,
\* given the answers [req, media, tv] the three endpoints would give
GetExistingTvRequests(media_id, answers) ==
    LET r == SessionGet(answers.req)
        g == <<Get(PathRequests, r)>>
    IN  IF Raised(r) THEN [seasons |-> <<>>, gets |-> g]
        ELSE IF r.code = 200 /\ ~r.json THEN [seasons |-> <<>>, gets |-> g]
        ELSE IF r.code = 200 /\ ExtractSeasonsFromRequests(r.body, media_id) # <<>>
        THEN [seasons |-> ExtractSeasonsFromRequests(r.body, media_id), gets |-> g]
        ELSE LookupMedia(g, answers)

(***************************************************************************)
(* The answers of the create call (POST /api/v1/request).  A body is the   *)
(* error message it carries, NoMessage (JSON with no 'message' key) or     *)
(* NotJson.  A message is known by the substrings the code looks for.      *)
(***************************************************************************)
MsgFilter == "Cannot read properties of undefined (reading 'filter')"
MsgUndefined == "Cannot read properties of undefined (reading 'id')"
MsgNoSeasons == "No seasons available to request"
MsgMedia == "Could not find any entity of type \"Media\" matching: {}"
MsgTvDetails == "[TMDB] Failed to fetch TV show details: Request failed with status code 404"
MsgMovieDetails == "[TMDB] Failed to fetch movie details: Request failed with status code 500"
Msg404 == "Request failed with status code 404"
MsgOther == "Something went wrong"
MsgUnknown == "Unknown error"

Msgs ==
    {MsgFilter, MsgUndefined, MsgNoSeasons, MsgMedia, MsgTvDetails,
     MsgMovieDetails, Msg404, MsgOther}

NoMessage == "NoMessage"

\* the substrings the code looks for in an error message
SubFilter == "Cannot read properties of undefined (reading 'filter')"
SubUndefined == "Cannot read properties of undefined"
SubNoSeasons == "No seasons available to request"
SubMedia == "Could not find any entity of type \"Media\""
SubTvDetails == "Failed to fetch TV show details"
SubMovieDetails == "Failed to fetch movie details"
Sub404 == "404"

\* sub in msg
Contains(msg, sub) ==
    CASE sub = SubFilter -> msg = MsgFilter
      [] sub = SubUndefined -> msg \in {MsgFilter, MsgUndefined}
      [] sub = SubNoSeasons -> msg = MsgNoSeasons
      [] sub = SubMedia -> msg = MsgMedia
      [] sub = SubTvDetails -> msg = MsgTvDetails
      [] sub = SubMovieDetails -> msg = MsgMovieDetails
      [] sub = Sub404 -> msg \in {MsgTvDetails, Msg404}
      [] OTHER -> FALSE

\* response.json().get('message', 'Unknown error'), of a body that is JSON
ErrorMsg(ans) == IF ans.body = NoMessage THEN MsgUnknown ELSE ans.body

Created == [code |-> 201, body |-> NoMessage]
Conflict == [code |-> 409, body |-> NoMessage]

\* an answer with another status: its body decides what the code does
Failure(body) == [code |-> 500, body |-> body]

\* every answer the create call can get
PostAnswers ==
    {Created, Conflict, Exc} \cup {Failure(b) : b \in Msgs \cup {NoMessage, NotJson}}

(***************************************************************************)
(* The request service as the durable store, for one media identifier:     *)
(* env.have is the set of seasons it holds as pending, approved or         *)
(* available and env.total the number of seasons of the show.  A faithful  *)
(* service answers 201 only when the call adds a season it did not hold,   *)
(* 409 or 'No seasons available to request' only when it adds none, and    *)
(* 'Could not find any entity of type "Media"' only when it holds nothing. *)
(* env.level names the answers the service has: "pass" is the few that     *)
(* lead to each kind of outcome, "call" every answer of the create call    *)
(* after any lookup, "store" the ones that lead to each branch of the      *)
(* ranged request.                                                         *)
(***************************************************************************)
\* the service of one call: every answer of the create call is possible
AnyService == [faithful |-> FALSE, level |-> "call", have |-> {}, total |-> 0]

\* the service of the scheduler's passes: one answer for each kind of outcome
PassService == [faithful |-> FALSE, level |-> "pass", have |-> {}, total |-> 0]

\* the service that holds the seasons have of a show of total seasons
StoreService(have, total) ==
    [faithful |-> TRUE, level |-> "store", have |-> have, total |-> total]

\* the create call's answers in a pass: created, conflict, another error
PassAnswers == {Created, Conflict, Failure(MsgOther)}

\* the create call's answers that lead to each branch of the ranged request
StoreAnswers ==
    {Created, Conflict, Failure(MsgNoSeasons), Failure(MsgMedia), Failure(MsgOther), Exc}

\* the answers a create call can get, whatever the service holds
PostAnswersIn(env) ==
    CASE env.level = "call" -> PostAnswers
      [] env.level = "pass" -> PassAnswers
      [] env.level = "store" -> StoreAnswers

\* the seasons a create call asks for: a bare call (no season list, <<>>
\* here) asks for every season
Asked(env, seasons) ==
    IF seasons = <<>> THEN 1..env.total ELSE Range(seasons) \cap 1..env.total

\* the answers a create call can get, each with the seasons held afterwards
PostAnswersFor(env, seasons) ==
    IF ~env.faithful
    THEN {[ans |-> a, have |-> env.have] : a \in PostAnswersIn(env)}
    ELSE LET new == Asked(env, seasons) \ env.have
             refusals ==
                 {a \in PostAnswersIn(env) :
                     /\ a.code # 201
                     /\ (a = Conflict \/ a.body = MsgNoSeasons) => new = {}
                     /\ a.body = MsgMedia => env.have = {}}
         IN  {[ans |-> a, have |-> env.have] : a \in refusals}
               \cup (IF new # {}
                     THEN {[ans |-> Created, have |-> env.have \cup new]}
                     ELSE {})

(***************************************************************************)
(* The search (GET /api/v1/search) and the Title Resolver.  A search       *)
(* result is [id, mediaType, name, date]: name is its 'title' or 'name',   *)
(* date its 'releaseDate' or 'firstAirDate', 0 when it has none.           *)
(***************************************************************************)
PathSearch == "GET /api/v1/search"
PathCreate == "POST /api/v1/request"

\* the first entry with the greatest date: list.sort(reverse=True) is stable
MostRecent(results) ==
    LET top == Max({results[k].date : k \in 1..Len(results)})
    IN  results[Min({k \in 1..Len(results) : results[k].date = top})]

\* the match request_tv_show_seasons chooses among the tv results (not empty)
ChooseTv(title, tv_results) ==
    LET Exact(r) == Lower(r.name) = Lower(title)
        exact_matches == SelectSeq(tv_results, Exact)
    IN  IF exact_matches # <<>> THEN exact_matches[1] ELSE MostRecent(tv_results)

\* a variant that takes the service's first result
ChooseFirst(title, media_type, results) == results[1]

\* the match request_in_overseerr chooses among the results (not empty)
ChooseUnscoped(title, media_type, results) ==
    LET Exact(r) == Lower(r.name) = Lower(title) /\ r.mediaType = media_type
        exact_matches == SelectSeq(results, Exact)
    IN  IF Len(results) > 1
        THEN IF exact_matches # <<>> THEN exact_matches[1] ELSE MostRecent(results)
        ELSE results[1]

\* the 'id' the search results carry
ShowId == 1

\* the search's answers in a pass: no answer, or one result of the kind
PassSearchAnswers(title, media_type) ==
    {NoAnswer(<<>>),
     Json(200, <<[id |-> ShowId, mediaType |-> media_type, name |-> title, date |-> 1]>>)}

\* the search's answers of one call: those of a pass, a status that is not
\* 200, an unreadable body, no result, and one result of the other kind
CallSearchAnswers(title, media_type) ==
    PassSearchAnswers(title, media_type)
      \cup {Status(404, <<>>), Status(500, <<>>), Status(200, <<>>), Json(200, <<>>),
            Json(200, <<[id |-> ShowId, name |-> title, date |-> 1,
                         mediaType |-> IF media_type = "tv" THEN "movie" ELSE "tv"]>>)}

\* the answers the search for a title of a kind can get
SearchAnswersIn(env, title, media_type) ==
    IF env.level = "call" THEN CallSearchAnswers(title, media_type)
    ELSE PassSearchAnswers(title, media_type)

\* the records of the seasons S, in ascending order
SeasonRecords(S, status, available) ==
    LET ns == SortedSet(S)
    IN  [k \in 1..Len(ns) |->
            [seasonNumber |-> ns[k], status |-> status, available |-> available]]

\* the body of the media-details endpoint: its season records
MediaBody(seasons) == [seasons |-> seasons, requests |-> <<>>, mediaInfo |-> <<>>]

\* the body of the TV-details endpoint: its season records
TvBody(seasons) == [seasons |-> seasons]

\* the lookup's answers in a pass: the requests listing lists a pending
\* request for season 1
PassLookupAnswers(media_id) ==
    [req : {Json(200, <<[tmdbId |-> media_id, status |-> 2,
                         seasons |-> SeasonRecords({1}, 0, FALSE)]>>)},
     media : {Status(404, MediaBody(<<>>))},
     tv : {Status(404, TvBody(<<>>))}]

\* the lookup's answers of one call: each endpoint fails or reports any set
\* of seasons, whatever the service holds
SeasonLookupAnswers(media_id) ==
    [req : {NoAnswer(<<>>), Status(403, <<>>)}
             \cup {Json(200, <<[tmdbId |-> media_id, status |-> 2,
                                seasons |-> SeasonRecords(S, 0, FALSE)]>>) :
                     S \in SUBSET (1..MaxSeason)},
     media : {Status(404, MediaBody(<<>>)), Status(403, MediaBody(<<>>))}
               \cup {Json(200, MediaBody(SeasonRecords(S, 5, FALSE))) :
                       S \in SUBSET (1..MaxSeason)},
     tv : {NoAnswer(TvBody(<<>>)), Status(404, TvBody(<<>>))}
            \cup {Json(200, TvBody(SeasonRecords(S, 1, TRUE))) :
                    S \in SUBSET (1..MaxSeason)}]

\* every result of the lookup: the seasons returned and the endpoints queried
LookupOutcomes(env, media_id) ==
    {GetExistingTvRequests(media_id, a) :
        a \in IF env.level = "pass" THEN PassLookupAnswers(media_id)
              ELSE SeasonLookupAnswers(media_id)}

(***************************************************************************)
(* What an entry point returns and what it did.  status, message and       *)
(* tmdb_id are the returned dict (tmdb_id 0: the dict has none); chosen is *)
(* the search result used, existing the lookup's result, calls the HTTP    *)
(* calls in order, have the seasons the service holds afterwards.          *)
(***************************************************************************)
\* a message: its fixed text and the values formatted into it
Message(text, seasons, existing, detail) ==
    [text |-> text, seasons |-> seasons, existing |-> existing, detail |-> detail,
     code |-> 0]

Text(text) == Message(text, <<>>, <<>>, "")

\* f'Search failed: {search_response.status_code}'
SearchFailed(code) == [Text("Search failed") EXCEPT !.code = code]

\* an HTTP call: seasons is the 'seasons' list of a create call (<<>>: the call
\* carries none), code and body the answer the code saw
Call(path, seasons, answer) ==
    [path |-> path, seasons |-> seasons, code |-> answer.code, body |-> answer.body]

\* a GET, whose body is not kept
GetCall(path, code) == [path |-> path, seasons |-> <<>>, code |-> code, body |-> ""]

\* the calls of a lookup
LookupCalls(gets) == [k \in 1..Len(gets) |-> GetCall(gets[k].path, gets[k].code)]

\* no search result was chosen
NoItem == [id |-> 0, mediaType |-> "", name |-> <<>>, date |-> 0]

\* the dict carries no tmdb_id
NoId == 0

\* what is kept of the search result used: its id and its declared kind
Chosen(item) == [id |-> item.id, mediaType |-> item.mediaType]

Outcome(status, message, tmdb_id, item, existing, calls, have) ==
    [status |-> status, message |-> message, tmdb_id |-> tmdb_id,
     chosen |-> Chosen(item), existing |-> existing, calls |-> calls, have |-> have]

\* except Exception as e: return {'status': 'error', 'message': f'Exception: ...'}
Caught(item, existing, calls, have) ==
    Outcome("error", Text("Exception: {e}"), NoId, item, existing, calls, have)

(***************************************************************************)
(* request_tv_show_seasons: the season-ranged request.  Each operator      *)
(* gives the set of outcomes the rest of the function can have.            *)
(***************************************************************************)
\* a variant that asks for every needed season, whatever exists
AllSeasons(max_season, existing_seasons) == RangeList(1, max_season)

\* a variant whose range runs one season past max_season
SeasonsPastMax(max_season, existing_seasons) ==
    LET Missing(s) == s \notin Range(existing_seasons)
    IN  SelectSeq(RangeList(1, max_season + 1), Missing)

\* [s for s in all_seasons_needed if s not in existing_seasons]
SeasonsToRequest(max_season, existing_seasons) ==
    LET Missing(s) == s \notin Range(existing_seasons)
    IN  SelectSeq(RangeList(1, max_season), Missing)

\* a variant that does not test the flag
DryRunIgnored(dry_run) == FALSE

\* if self.dry_run: (both entry points test it right before the first create call)
DryRunReturns(dry_run) == dry_run

\* the search of request_tv_show_seasons, up to media_id = media_item['id']
RangedResolve(title, r) ==
    LET IsTv(x) == x.mediaType = "tv"
    IN  IF Raised(r) THEN [kind |-> "raised", code |-> 0, item |-> NoItem]
        ELSE IF r.code # 200 THEN [kind |-> "status", code |-> r.code, item |-> NoItem]
        ELSE IF ~r.json THEN [kind |-> "raised", code |-> 200, item |-> NoItem]
        ELSE IF r.body = <<>> THEN [kind |-> "none", code |-> 200, item |-> NoItem]
        ELSE IF SelectSeq(r.body, IsTv) = <<>>
        THEN [kind |-> "notv", code |-> 200, item |-> NoItem]
        ELSE [kind |-> "hit", code |-> 200,
              item |-> ChooseTv(title, SelectSeq(r.body, IsTv))]

RangedSearchOutcomes(env, title) ==
    {RangedResolve(title, SessionGet(a)) : a \in SearchAnswersIn(env, title, "tv")}

\* the individual-season fallback: the runs of the loop over todo, from acc =
\* [calls, requested_seasons, raised, have]
RECURSIVE SeasonRuns(_, _, _, _)
SeasonRuns(env, media_id, todo, acc) ==
    IF todo = <<>> THEN {acc}
    ELSE UNION {
        LET a == p.ans
            calls == Append(acc.calls, Call(PathCreate, <<Head(todo)>>, a))
            next == [env EXCEPT !.have = p.have]
        IN  IF Raised(a)
            THEN {[acc EXCEPT !.calls = calls, !.raised = TRUE]}
            ELSE IF a.code = 201
            THEN SeasonRuns(next, media_id, Tail(todo),
                     [acc EXCEPT !.calls = calls, !.have = p.have,
                                 !.requested = Append(@, Head(todo))])
            ELSE IF a.code = 409
            THEN SeasonRuns(next, media_id, Tail(todo), [acc EXCEPT !.calls = calls])
            ELSE IF a.body = NotJson
            THEN {[acc EXCEPT !.calls = calls, !.raised = TRUE]}
            ELSE SeasonRuns(next, media_id, Tail(todo), [acc EXCEPT !.calls = calls])
        : p \in PostAnswersFor(env, <<Head(todo)>>)}

\* a variant that never reports the seasons it created
FallbackNeverNew(run, item, existing) ==
    IF run.raised THEN Caught(item, existing, run.calls, run.have)
    ELSE Outcome("existing_request", Text("All seasons already available or requested"),
             item.id, item, existing, run.calls, run.have)

\* a variant that names the first created season only
FallbackNamesFirst(run, item, existing) ==
    IF run.raised THEN Caught(item, existing, run.calls, run.have)
    ELSE IF run.requested # <<>>
    THEN Outcome("new_request",
             Message("Successfully requested seasons", <<Head(run.requested)>>,
                     existing, ""),
             item.id, item, existing, run.calls, run.have)
    ELSE Outcome("existing_request", Text("All seasons already available or requested"),
             item.id, item, existing, run.calls, run.have)

\* what the fallback returns after its loop
FallbackResult(run, item, existing) ==
    IF run.raised THEN Caught(item, existing, run.calls, run.have)
    ELSE IF run.requested # <<>>
    THEN Outcome("new_request",
             IF existing # <<>>
             THEN Message("Successfully requested missing seasons", run.requested,
                          existing, "")
             ELSE Message("Successfully requested seasons", run.requested, <<>>, ""),
             item.id, item, existing, run.calls, run.have)
    ELSE Outcome("existing_request", Text("All seasons already available or requested"),
             item.id, item, existing, run.calls, run.have)

\* a variant that takes every answer but 201 for a conflict
RangedImportNeverFails(env, item, existing, calls) ==
    {LET a == p.ans
         cs == Append(calls, Call(PathCreate, <<>>, a))
     IN  IF a.code = 201
         THEN Outcome("new_request", Text("Successfully requested (media imported)"),
                  item.id, item, existing, cs, p.have)
         ELSE Outcome("existing_request", Text("Request already exists"),
                  item.id, item, existing, cs, p.have)
     : p \in PostAnswersFor(env, <<>>)}

\* the bare (no season list) create call that imports the media, and its result
RangedImport(env, item, existing, calls) ==
    {LET a == p.ans
         cs == Append(calls, Call(PathCreate, <<>>, a))
     IN  IF Raised(a) THEN Caught(item, existing, cs, p.have)
         ELSE IF a.code = 201
         THEN Outcome("new_request", Text("Successfully requested (media imported)"),
                  item.id, item, existing, cs, p.have)
         ELSE IF a.code = 409
         THEN Outcome("existing_request", Text("Request already exists"),
                  item.id, item, existing, cs, p.have)
         ELSE IF a.body = NotJson THEN Caught(item, existing, cs, p.have)
         ELSE Outcome("error", Message("Request failed", <<>>, <<>>, ErrorMsg(a)),
                  NoId, item, existing, cs, p.have)
     : p \in PostAnswersFor(env, <<>>)}

\* from the answer p of the first create call to the return
RangedAfterCreate(env, item, existing, seasons_to_request, calls, p) ==
    LET a == p.ans
        cs == Append(calls, Call(PathCreate, seasons_to_request, a))
        next == [env EXCEPT !.have = p.have]
    IN  IF Raised(a) THEN {Caught(item, existing, cs, p.have)}
        ELSE IF a.code = 201
        THEN {Outcome("new_request",
                  IF existing # <<>>
                  THEN Message("Successfully requested missing seasons",
                               seasons_to_request, existing, "")
                  ELSE Message("Successfully requested seasons", seasons_to_request,
                               <<>>, ""),
                  item.id, item, existing, cs, p.have)}
        ELSE IF a.code = 409
        THEN {Outcome("existing_request",
                  Message("Request already exists", <<>>, existing, ""),
                  item.id, item, existing, cs, p.have)}
        ELSE IF a.body = NotJson THEN {Caught(item, existing, cs, p.have)}
        ELSE IF Contains(ErrorMsg(a), SubFilter)
        THEN {Outcome("error", Text("Overseerr API bug - try requesting via web UI"),
                  NoId, item, existing, cs, p.have)}
        ELSE IF Contains(ErrorMsg(a), SubNoSeasons)
        THEN {FallbackResult(run, item, existing) :
                run \in SeasonRuns(next, item.id, seasons_to_request,
                            [calls |-> cs, requested |-> <<>>, raised |-> FALSE,
                             have |-> p.have])}
        ELSE IF Contains(ErrorMsg(a), SubMedia)
        THEN RangedImport(next, item, existing, cs)
        ELSE {Outcome("error", Message("Request failed", <<>>, <<>>, ErrorMsg(a)),
                  NoId, item, existing, cs, p.have)}

\* from the lookup's result lo to the return
RangedAfterLookup(max_season, dry_run, env, item, lo, calls) ==
    LET existing == lo.seasons
        seasons_to_request == SeasonsToRequest(max_season, existing)
        cs == calls \o LookupCalls(lo.gets)
    IN  IF seasons_to_request = <<>>
        THEN {Outcome("existing_request",
                  Text("All seasons 1-{max_season} already available or requested"),
                  item.id, item, existing, cs, env.have)}
        ELSE IF DryRunReturns(dry_run)
        THEN {Outcome("dry_run",
                  Message("Dry run - would request seasons", seasons_to_request,
                          <<>>, ""),
                  item.id, item, existing, cs, env.have)}
        ELSE UNION {RangedAfterCreate(env, item, existing, seasons_to_request, cs, p) :
                      p \in PostAnswersFor(env, seasons_to_request)}

\* from the search's result so to the return
RangedAfterSearch(max_season, dry_run, env, so) ==
    LET cs == <<GetCall(PathSearch, so.code)>>
    IN  CASE so.kind = "raised" -> {Caught(NoItem, <<>>, cs, env.have)}
          [] so.kind = "status" ->
               {Outcome("error", SearchFailed(so.code),
                    NoId, NoItem, <<>>, cs, env.have)}
          [] so.kind = "none" ->
               {Outcome("not_found", Text("No results found in TMDB"),
                    NoId, NoItem, <<>>, cs, env.have)}
          [] so.kind = "notv" ->
               {Outcome("not_found", Text("No TV show results found"),
                    NoId, NoItem, <<>>, cs, env.have)}
          [] so.kind = "hit" ->
               UNION {RangedAfterLookup(max_season, dry_run, env, so.item, lo, cs) :
                        lo \in LookupOutcomes(env, so.item.id)}

\* request_tv_show_seasons(title, max_season): every outcome it can have
RequestTvShowSeasons(title, max_season, dry_run, env) ==
    UNION {RangedAfterSearch(max_season, dry_run, env, so) :
             so \in RangedSearchOutcomes(env, title)}

(***************************************************************************)
(* request_in_overseerr: the unscoped request, for a movie or a TV title.  *)
(***************************************************************************)
\* a variant that takes a status other than 200 for an empty result list
UnscopedResolveLenient(title, media_type, r) ==
    IF Raised(r) THEN [kind |-> "raised", code |-> 0, item |-> NoItem]
    ELSE IF r.code # 200 THEN [kind |-> "none", code |-> r.code, item |-> NoItem]
    ELSE IF ~r.json THEN [kind |-> "raised", code |-> 200, item |-> NoItem]
    ELSE IF r.body = <<>> THEN [kind |-> "none", code |-> 200, item |-> NoItem]
    ELSE [kind |-> "hit", code |-> 200,
          item |-> ChooseUnscoped(title, media_type, r.body)]

\* the search of request_in_overseerr, up to media_id = media_item['id']
UnscopedResolve(title, media_type, r) ==
    IF Raised(r) THEN [kind |-> "raised", code |-> 0, item |-> NoItem]
    ELSE IF r.code # 200 THEN [kind |-> "status", code |-> r.code, item |-> NoItem]
    ELSE IF ~r.json THEN [kind |-> "raised", code |-> 200, item |-> NoItem]
    ELSE IF r.body = <<>> THEN [kind |-> "none", code |-> 200, item |-> NoItem]
    ELSE [kind |-> "hit", code |-> 200,
          item |-> ChooseUnscoped(title, media_type, r.body)]

UnscopedSearchOutcomes(env, title, media_type) ==
    {UnscopedResolve(title, media_type, SessionGet(a)) :
        a \in SearchAnswersIn(env, title, media_type)}

\* a variant that asks for season 1 at every retry
RetrySeasonOne(n) == 1

\* the season the retry after the n-th create call of the chain asks for
RetrySeason(n) == n

\* a variant that goes on to a season [4]
RetriesLonger(n, error_msg) ==
    IF n = 1
    THEN Contains(error_msg, SubTvDetails) \/ Contains(error_msg, Sub404)
           \/ Contains(error_msg, SubUndefined)
    ELSE n <= 4 /\ Contains(error_msg, SubNoSeasons)

\* a variant that retries after any failure of the bare call
RetriesAnyFailure(n, error_msg) ==
    IF n = 1 THEN TRUE ELSE n <= 3 /\ Contains(error_msg, SubNoSeasons)

\* whether the n-th create call of the chain (n = 1: the bare call), answered
\* with error_msg, is followed by a retry
Retries(n, error_msg) ==
    IF n = 1
    THEN Contains(error_msg, SubTvDetails) \/ Contains(error_msg, Sub404)
           \/ Contains(error_msg, SubUndefined)
    ELSE n <= 3 /\ Contains(error_msg, SubNoSeasons)

\* the chain of create calls of a request: the bare call, then for a TV title
\* the retries with season [1], [2], [3].  A run is [calls, last, raised]:
\* last is the answer left in request_response.
RECURSIVE ChainRuns(_, _, _, _)
ChainRuns(env, media_type, n, calls) ==
    UNION {
        LET cs == Append(calls,
                      Call(PathCreate, IF n = 1 THEN <<>> ELSE <<RetrySeason(n - 1)>>, a))
        IN  IF Raised(a) THEN {[calls |-> cs, last |-> a, raised |-> TRUE]}
            ELSE IF media_type = "tv" /\ a.code \notin {201, 409}
            THEN IF a.body = NotJson
                 THEN {[calls |-> cs, last |-> a, raised |-> TRUE]}
                 ELSE IF Retries(n, ErrorMsg(a))
                 THEN ChainRuns(env, media_type, n + 1, cs)
                 ELSE {[calls |-> cs, last |-> a, raised |-> FALSE]}
            ELSE {[calls |-> cs, last |-> a, raised |-> FALSE]}
        : a \in PostAnswersIn(env)}

\* the bare create call after 'Could not find any entity of type "Media"'
UnscopedImport(env, item, calls) ==
    {LET cs == Append(calls, Call(PathCreate, <<>>, a))
     IN  IF Raised(a) THEN Caught(item, <<>>, cs, {})
         ELSE IF a.code = 201
         THEN Outcome("new_request", Text("Successfully requested (media imported)"),
                  item.id, item, <<>>, cs, {})
         ELSE IF a.code = 409
         THEN Outcome("existing_request", Text("Request already exists"),
                  item.id, item, <<>>, cs, {})
         ELSE IF a.body = NotJson THEN Caught(item, <<>>, cs, {})
         ELSE IF Contains(ErrorMsg(a), SubFilter)
         THEN Outcome("error", Text("Overseerr API bug - try requesting via web UI"),
                  NoId, item, <<>>, cs, {})
         ELSE Outcome("error", Text("Media not found in Overseerr database"),
                  NoId, item, <<>>, cs, {})
     : a \in PostAnswersIn(env)}

\* from the end of the chain to the return
UnscopedAfterChain(env, item, run) ==
    LET a == run.last
    IN  IF run.raised THEN {Caught(item, <<>>, run.calls, {})}
        ELSE IF a.code = 201
        THEN {Outcome("new_request", Text("Successfully requested"),
                  item.id, item, <<>>, run.calls, {})}
        ELSE IF a.code = 409
        THEN {Outcome("existing_request", Text("Request already exists"),
                  item.id, item, <<>>, run.calls, {})}
        ELSE IF a.body = NotJson THEN {Caught(item, <<>>, run.calls, {})}
        ELSE IF Contains(ErrorMsg(a), SubMovieDetails)
        THEN {Outcome("not_found", Text("Movie not found in TMDB"),
                  NoId, item, <<>>, run.calls, {})}
        ELSE IF Contains(ErrorMsg(a), SubTvDetails)
        THEN {Outcome("not_found", Text("TV show not found in TMDB"),
                  NoId, item, <<>>, run.calls, {})}
        ELSE IF Contains(ErrorMsg(a), SubMedia)
        THEN UnscopedImport(env, item, run.calls)
        ELSE IF Contains(ErrorMsg(a), SubUndefined)
        THEN {Outcome("not_found", Text("TV show not found in Overseerr database"),
                  NoId, item, <<>>, run.calls, {})}
        ELSE IF Contains(ErrorMsg(a), SubNoSeasons)
        THEN {Outcome("existing_request", Text("Season already available or requested"),
                  item.id, item, <<>>, run.calls, {})}
        ELSE {Outcome("error", Message("Request failed", <<>>, <<>>, ErrorMsg(a)),
                  NoId, item, <<>>, run.calls, {})}

\* from the search's result so to the return
UnscopedAfterSearch(media_type, dry_run, env, so) ==
    LET cs == <<GetCall(PathSearch, so.code)>>
    IN  CASE so.kind = "raised" -> {Caught(NoItem, <<>>, cs, {})}
          [] so.kind = "status" ->
               {Outcome("error", SearchFailed(so.code),
                    NoId, NoItem, <<>>, cs, {})}
          [] so.kind = "none" ->
               {Outcome("not_found", Text("No results found in TMDB"),
                    NoId, NoItem, <<>>, cs, {})}
          [] so.kind = "hit" ->
               IF DryRunReturns(dry_run)
               THEN {Outcome("dry_run", Text("Dry run - would request"),
                         so.item.id, so.item, <<>>, cs, {})}
               ELSE UNION {UnscopedAfterChain(env, so.item, run) :
                             run \in ChainRuns(env, media_type, 1, cs)}

\* request_in_overseerr(title, media_type): every outcome it can have
RequestInOverseerr(title, media_type, dry_run, env) ==
    UNION {UnscopedAfterSearch(media_type, dry_run, env, so) :
             so \in UnscopedSearchOutcomes(env, title, media_type)}

(***************************************************************************)
(* get_netflix_top10: the Feed Fetcher.  A row is [country_name, week,     *)
(* category, show_title, season_title]; a week is a number ordered as the  *)
(* ISO date strings are.  The answer's json is FALSE when the rows lack    *)
(* the columns read: row['country_name'] raises.                           *)
(***************************************************************************)
\* the configured country and another one
Country == "United States"
OtherCountry == "Canada"

\* movies[:10], tv_shows[:10]
TopN == 10

\* a variant that keeps the last n
TruncateTail(s, n) == SubSeq(s, IF Len(s) < n THEN 1 ELSE Len(s) - n + 1, Len(s))

\* s[:n]
Truncate(s, n) == SubSeq(s, 1, IF Len(s) < n THEN Len(s) ELSE n)

NoTitles == [movies |-> <<>>, tv_shows |-> <<>>]

\* a variant that keeps the rows of every week
GetNetflixTop10AnyWeek(answer, country) ==
    LET r == SessionGet(answer)
    IN  IF Raised(r) \/ r.code >= 400 \/ ~r.json THEN NoTitles
        ELSE LET InCountry(row) == row.country_name = country
                 country_data == SelectSeq(r.body, InCountry)
                 most_recent_week ==
                     Max({country_data[k].week : k \in 1..Len(country_data)})
                 Recent(row) == TRUE
                 recent_data == SelectSeq(country_data, Recent)
                 IsFilm(row) == row.category = "Films"
                 IsTv(row) == row.category = "TV"
                 films == SelectSeq(recent_data, IsFilm)
                 tv == SelectSeq(recent_data, IsTv)
             IN  IF country_data = <<>> THEN NoTitles
                 ELSE [movies |-> Truncate([k \in 1..Len(films) |-> films[k].show_title],
                                           TopN),
                       tv_shows |-> Truncate([k \in 1..Len(tv) |->
                                                 [title |-> tv[k].show_title,
                                                  season_title |-> tv[k].season_title]],
                                             TopN)]

\* get_netflix_top10, given the answer of the feed's server
GetNetflixTop10(answer, country) ==
    LET r == SessionGet(answer)
    IN  IF Raised(r) \/ r.code >= 400 \/ ~r.json THEN NoTitles
        ELSE LET InCountry(row) == row.country_name = country
                 country_data == SelectSeq(r.body, InCountry)
                 most_recent_week ==
                     Max({country_data[k].week : k \in 1..Len(country_data)})
                 Recent(row) == row.week = most_recent_week
                 recent_data == SelectSeq(country_data, Recent)
                 IsFilm(row) == row.category = "Films"
                 IsTv(row) == row.category = "TV"
                 films == SelectSeq(recent_data, IsFilm)
                 tv == SelectSeq(recent_data, IsTv)
             IN  IF country_data = <<>> THEN NoTitles
                 ELSE [movies |-> Truncate([k \in 1..Len(films) |-> films[k].show_title],
                                           TopN),
                       tv_shows |-> Truncate([k \in 1..Len(tv) |->
                                                 [title |-> tv[k].show_title,
                                                  season_title |-> tv[k].season_title]],
                                             TopN)]

Row(country_name, week, category, show_title, season_title) ==
    [country_name |-> country_name, week |-> week, category |-> category,
     show_title |-> show_title, season_title |-> season_title]

\* the titles and labels of the feeds of the scheduler's passes
FeedTitles == {TitleX}
FeedLabels == {LabelNA, SeasonLabel(0), SeasonLabel(1), SeasonLabel(MaxSeason)}

\* rows of every feed: another country's, and an earlier week's, which
\* counts when the feed has no later one
NoiseRows ==
    <<Row(OtherCountry, 3, "Films", TitleXY, LabelNA),
      Row(Country, 1, "TV", TitleXY, SeasonLabel(1))>>

\* the feeds of the passes: up to MaxRows films and MaxRows shows of week 2
PassFeeds ==
    {NoiseRows \o [k \in 1..Len(fs) |-> Row(Country, 2, "Films", fs[k], LabelNA)]
               \o [k \in 1..Len(ts) |-> Row(Country, 2, "TV", ts[k][1], ts[k][2])] :
        fs \in UNION {[1..n -> FeedTitles] : n \in 0..MaxRows},
        ts \in UNION {[1..n -> FeedTitles \X FeedLabels] : n \in 0..MaxRows}}

\* the answers of the feed's server
FeedAnswers ==
    {NoAnswer(<<>>), Status(404, <<>>), Status(200, <<>>), Json(200, <<NoiseRows[1]>>)}
      \cup {Json(200, rows) : rows \in PassFeeds}

(***************************************************************************)
(* The state.                                                              *)
(***************************************************************************)
VARIABLES
    pc,         \* where the process is: start, exited, and the steps of run()
    cfg,        \* the configuration read at startup
    exit_code,  \* the code of sys.exit: <<>> while the process runs
    movies,     \* run(): the movies of this pass
    tv_shows,   \* run(): the shows of this pass
    idx,        \* run(): the position in the list being processed
    summary,    \* run(): the summary of this pass
    req,        \* the call of an entry point made last: its arguments
    result,     \* the dict that call returned
    locals,     \* that call's media_item and existing_seasons
    calls,      \* the HTTP calls of the step taken last, in order
    svc         \* the request service, by media id: the seasons it holds

vars == <<pc, cfg, exit_code, movies, tv_shows, idx, summary, req, result, locals,
          calls, svc>>

\* the identifiers the search results carry
Ids == {ShowId}

\* OVERSEERR_URL and OVERSEERR_API_KEY: unset, empty or set; DRY_RUN; KOMETA_ENABLED
\* os.getenv of a variable that is not set
Unset == "None"

Configs ==
    [overseerr_url : {Unset, "", "http://overseerr:5055"},
     overseerr_api_key : {Unset, "key"},
     dry_run : BOOLEAN, kometa_enabled : BOOLEAN]

\* not self.overseerr_url or not self.overseerr_api_key
MissingConfig(c) ==
    c.overseerr_url \in {Unset, ""} \/ c.overseerr_api_key \in {Unset, ""}

EmptySummary ==
    [top_movies |-> <<>>, top_shows |-> <<>>, new_downloads |-> <<>>,
     existing_downloads |-> <<>>, errors |-> <<>>]

\* the dict an entry point returned
Returned(o) == [status |-> o.status, message |-> o.message, tmdb_id |-> o.tmdb_id]

Locals(o) == [media_item |-> o.chosen, existing_seasons |-> o.existing]

\* no entry point has been called
NoCall == [entry |-> "", title |-> <<>>, media_type |-> "", max_season |-> 0]
NoResult == [status |-> "", message |-> Text(""), tmdb_id |-> NoId]
NoLocals == [media_item |-> Chosen(NoItem), existing_seasons |-> <<>>]

Idle ==
    /\ movies = <<>> /\ tv_shows = <<>> /\ idx = 0 /\ summary = EmptySummary
    /\ req = NoCall /\ result = NoResult /\ locals = NoLocals /\ calls = <<>>
    /\ svc = [i \in Ids |-> {}] /\ exit_code = <<>>

Init == pc = "start" /\ cfg \in Configs /\ Idle

(***************************************************************************)
(* Startup: __init__ and _test_overseerr_connection.                       *)
(***************************************************************************)
PathStatus == "GET /api/v1/status"
PathFeed == "GET all-weeks-countries.tsv"

\* the answers of the status endpoint
HealthAnswers ==
    {NoAnswer("")} \cup {Json(c, "") : c \in {200, 401, 500}}

\* a variant without raise_for_status()
HealthIgnoresStatus(answer) == Raised(SessionGet(answer))

\* response.raise_for_status() raises, or the call itself did
HealthFails(answer) == Raised(SessionGet(answer)) \/ SessionGet(answer).code >= 400

\* sys.exit(1)
ExitCode == 1

\* __init__ stops on missing configuration
StartMissing ==
    /\ pc = "start" /\ MissingConfig(cfg)
    /\ pc' = "exited" /\ exit_code' = <<ExitCode>>
    /\ UNCHANGED <<cfg, movies, tv_shows, idx, summary, req, result, locals, calls, svc>>

\* __init__ with the configuration present: the status check decides
StartChecked ==
    /\ pc = "start" /\ ~MissingConfig(cfg)
    /\ \E answer \in HealthAnswers :
         /\ calls' = <<GetCall(PathStatus, SessionGet(answer).code)>>
         /\ IF HealthFails(answer)
            THEN pc' = "exited" /\ exit_code' = <<ExitCode>>
            ELSE pc' = "fetch" /\ exit_code' = exit_code
    /\ UNCHANGED <<cfg, movies, tv_shows, idx, summary, req, result, locals, svc>>

(***************************************************************************)
(* run(): the scheduler loop.  An entry of the summary is a string: text   *)
(* is its pieces up to the message formatted at its end, the title's       *)
(* characters among them.                                                  *)
(***************************************************************************)
Entry(text, message) == [text |-> text, message |-> message]

\* f"{title} (Movie)"
MovieEntry(title) == Entry(title \o <<" ", "(", "Movie)">>, Text(""))

\* f"{title} (TV) - {result['message']}"
TvEntry(title, message) == Entry(title \o <<" ", "(", "TV) - ">>, message)

\* f"Failed to request movie: {title} - {result['message']}"
MovieError(title, message) ==
    Entry(<<"Failed to request movie: ">> \o title \o <<" - ">>, message)

\* f"Failed to request TV show: {title} - {result['message']}"
TvError(title, message) ==
    Entry(<<"Failed to request TV show: ">> \o title \o <<" - ">>, message)

FetchError == Entry(<<"Failed to fetch Netflix top 10">>, Text(""))

\* a variant that records no error
RecordMovieDropsError(sm, title, res) ==
    IF res.status = "new_request"
    THEN [sm EXCEPT !.new_downloads = Append(@, MovieEntry(title))]
    ELSE IF res.status = "existing_request"
    THEN [sm EXCEPT !.existing_downloads = Append(@, MovieEntry(title))]
    ELSE sm

\* the branches on result['status'] of the movie loop
RecordMovie(sm, title, res) ==
    IF res.status = "new_request"
    THEN [sm EXCEPT !.new_downloads = Append(@, MovieEntry(title))]
    ELSE IF res.status = "existing_request"
    THEN [sm EXCEPT !.existing_downloads = Append(@, MovieEntry(title))]
    ELSE [sm EXCEPT !.errors = Append(@, MovieError(title, res.message))]

\* a variant that records nothing of a dry run
RecordShowNoDryRun(sm, title, res) ==
    IF res.status = "new_request"
    THEN [sm EXCEPT !.new_downloads = Append(@, TvEntry(title, res.message))]
    ELSE IF res.status = "existing_request"
    THEN [sm EXCEPT !.existing_downloads = Append(@, TvEntry(title, res.message))]
    ELSE IF res.status = "dry_run" THEN sm
    ELSE [sm EXCEPT !.errors = Append(@, TvError(title, res.message))]

\* a variant that files a new request of a show with the existing ones
RecordShowAsExisting(sm, title, res) ==
    IF res.status = "new_request" \/ res.status = "existing_request"
    THEN [sm EXCEPT !.existing_downloads = Append(@, TvEntry(title, res.message))]
    ELSE [sm EXCEPT !.errors = Append(@, TvError(title, res.message))]

\* the branches on result['status'] of the show loop
RecordShow(sm, title, res) ==
    IF res.status = "new_request"
    THEN [sm EXCEPT !.new_downloads = Append(@, TvEntry(title, res.message))]
    ELSE IF res.status = "existing_request"
    THEN [sm EXCEPT !.existing_downloads = Append(@, TvEntry(title, res.message))]
    ELSE [sm EXCEPT !.errors = Append(@, TvError(title, res.message))]

\* a variant that tests 'is not None'
TruthyNotNone(x) == x # Indeterminate

\* if max_season: (None and 0 are false)
Truthy(x) == x # Indeterminate /\ x # 0

\* the outcomes of request_in_overseerr(title, 'movie') in a pass
MovieOutcomes ==
    [t \in Titles, d \in BOOLEAN |-> RequestInOverseerr(t, "movie", d, PassService)]

\* the outcomes of the request the show loop makes for a show
ShowOutcomes ==
    [t \in Titles, l \in FeedLabels, d \in BOOLEAN |->
        IF Truthy(ExtractSeasonNumber(l))
        THEN RequestTvShowSeasons(t, ExtractSeasonNumber(l), d, PassService)
        ELSE RequestInOverseerr(t, "tv", d, PassService)]

\* the arguments of a call of an entry point
Ranged(title, max_season) ==
    [entry |-> "request_tv_show_seasons", title |-> title, media_type |-> "tv",
     max_season |-> max_season]
Unscoped(title, media_type) ==
    [entry |-> "request_in_overseerr", title |-> title, media_type |-> media_type,
     max_season |-> 0]

\* a step that calls no entry point and makes no HTTP call
NoRequest == req' = NoCall /\ result' = NoResult /\ locals' = NoLocals /\ calls' = <<>>

\* a variant in which a pass without titles ends the process
FetchWithFatal(answer) ==
    LET got == GetNetflixTop10(answer, Country)
    IN  /\ movies' = got.movies /\ tv_shows' = got.tv_shows
        /\ IF got.movies = <<>> /\ got.tv_shows = <<>>
           THEN /\ summary' = [EmptySummary EXCEPT !.errors = <<FetchError>>]
                /\ pc' = "exited" /\ idx' = 0 /\ exit_code' = <<ExitCode>>
           ELSE /\ summary' = [EmptySummary EXCEPT !.top_movies = got.movies,
                                                   !.top_shows = got.tv_shows]
                /\ pc' = "movies" /\ idx' = 1 /\ exit_code' = exit_code
        /\ calls' = <<GetCall(PathFeed, SessionGet(answer).code)>>
        /\ req' = NoCall /\ result' = NoResult /\ locals' = NoLocals
        /\ UNCHANGED <<cfg, svc>>

\* the top of the loop, the feed's server answering 'answer': a new summary,
\* then get_netflix_top10; without titles the pass goes on after the loops
FetchWith(answer) ==
    LET got == GetNetflixTop10(answer, Country)
    IN  /\ movies' = got.movies /\ tv_shows' = got.tv_shows
        /\ IF got.movies = <<>> /\ got.tv_shows = <<>>
           THEN /\ summary' = [EmptySummary EXCEPT !.errors = <<FetchError>>]
                /\ pc' = "kometa" /\ idx' = 0
           ELSE /\ summary' = [EmptySummary EXCEPT !.top_movies = got.movies,
                                                   !.top_shows = got.tv_shows]
                /\ pc' = "movies" /\ idx' = 1
        /\ calls' = <<GetCall(PathFeed, SessionGet(answer).code)>>
        /\ req' = NoCall /\ result' = NoResult /\ locals' = NoLocals
        /\ UNCHANGED <<cfg, exit_code, svc>>

\* the top of the loop, whatever the feed's server answers
Fetch == pc = "fetch" /\ \E answer \in FeedAnswers : FetchWith(answer)

\* one turn of 'for title in movies', against the service env
MovieTurn(env) ==
    /\ pc = "movies" /\ idx <= Len(movies)
    /\ \E o \in IF env = PassService THEN MovieOutcomes[movies[idx], cfg.dry_run]
               ELSE RequestInOverseerr(movies[idx], "movie", cfg.dry_run, env) :
         /\ req' = Unscoped(movies[idx], "movie")
         /\ result' = Returned(o) /\ locals' = Locals(o) /\ calls' = o.calls
         /\ summary' = RecordMovie(summary, movies[idx], Returned(o))
    /\ idx' = idx + 1
    /\ UNCHANGED <<pc, cfg, exit_code, movies, tv_shows, svc>>

\* one turn of 'for title in movies'
ProcessMovie == MovieTurn(PassService)

\* a variant in which the movie loop may end before its last title
MoviesDoneEarly ==
    /\ pc = "movies"
    /\ pc' = "shows" /\ idx' = 1 /\ NoRequest
    /\ UNCHANGED <<cfg, exit_code, movies, tv_shows, summary, svc>>

\* the movie loop ends
MoviesDone ==
    /\ pc = "movies" /\ idx > Len(movies)
    /\ pc' = "shows" /\ idx' = 1 /\ NoRequest
    /\ UNCHANGED <<cfg, exit_code, movies, tv_shows, summary, svc>>

\* one turn of 'for tv_show in tv_shows', against the service env
ShowTurn(env) ==
    /\ pc = "shows" /\ idx <= Len(tv_shows)
    /\ LET title == tv_shows[idx].title
           season_title == tv_shows[idx].season_title
           max_season == ExtractSeasonNumber(season_title)
       IN  \E o \in IF env = PassService
                    THEN ShowOutcomes[title, season_title, cfg.dry_run]
                    ELSE IF Truthy(max_season)
                    THEN RequestTvShowSeasons(title, max_season, cfg.dry_run, env)
                    ELSE RequestInOverseerr(title, "tv", cfg.dry_run, env) :
             /\ req' = IF Truthy(max_season) THEN Ranged(title, max_season)
                       ELSE Unscoped(title, "tv")
             /\ result' = Returned(o) /\ locals' = Locals(o) /\ calls' = o.calls
             /\ summary' = RecordShow(summary, title, Returned(o))
    /\ idx' = idx + 1
    /\ UNCHANGED <<pc, cfg, exit_code, movies, tv_shows, svc>>

\* one turn of 'for tv_show in tv_shows'
ProcessShow == ShowTurn(PassService)

\* the show loop ends
ShowsDone ==
    /\ pc = "shows" /\ idx > Len(tv_shows)
    /\ pc' = "kometa" /\ idx' = 0 /\ NoRequest
    /\ UNCHANGED <<cfg, exit_code, movies, tv_shows, summary, svc>>

\* the searches of generate_kometa_files: one for each ranked title
\* a variant that searches once whatever the lists hold
KometaCallsAlways(sm) == <<GetCall(PathSearch, 200)>>

\* generate_kometa_files: one search for each title of the two lists
KometaCalls(sm) ==
    [k \in 1..(Len(sm.top_movies) + Len(sm.top_shows)) |-> GetCall(PathSearch, 200)]

\* if self.kometa_enabled: generate_kometa_files(summary); a directory that
\* cannot be written ends it before any search
Kometa ==
    /\ pc = "kometa" /\ cfg.kometa_enabled
    /\ \E writable \in BOOLEAN :
         calls' = IF writable THEN KometaCalls(summary) ELSE <<>>
    /\ pc' = "report"
    /\ UNCHANGED <<cfg, exit_code, movies, tv_shows, idx, summary, req, result, locals,
                   svc>>

\* manifest emission is off
KometaSkipped ==
    /\ pc = "kometa" /\ ~cfg.kometa_enabled
    /\ pc' = "report" /\ calls' = <<>>
    /\ UNCHANGED <<cfg, exit_code, movies, tv_shows, idx, summary, req, result, locals,
                   svc>>

\* a variant in which the reporter empties the lists it has shown
ReportClears ==
    /\ pc = "report"
    /\ pc' = "sleep" /\ calls' = <<>>
    /\ summary' = [summary EXCEPT !.new_downloads = <<>>, !.existing_downloads = <<>>,
                                  !.errors = <<>>]
    /\ UNCHANGED <<cfg, exit_code, movies, tv_shows, idx, req, result, locals, svc>>

\* _display_summary(summary), then next_run and sleep_seconds are computed
Report ==
    /\ pc = "report"
    /\ pc' = "sleep" /\ calls' = <<>>
    /\ UNCHANGED <<cfg, exit_code, movies, tv_shows, idx, summary, req, result, locals,
                   svc>>

\* a variant in which the loop ends after the sleep
SleepExits ==
    /\ pc = "sleep"
    /\ pc' = "exited" /\ NoRequest
    /\ UNCHANGED <<cfg, exit_code, movies, tv_shows, idx, summary, svc>>

\* a variant in which the next turn of the loop keeps the summary
SleepKeeps ==
    /\ pc = "sleep"
    /\ pc' = "fetch" /\ NoRequest
    /\ movies' = <<>> /\ tv_shows' = <<>> /\ idx' = 0
    /\ UNCHANGED <<cfg, exit_code, summary, svc>>

\* time.sleep(sleep_seconds), then the loop's next turn, which keeps nothing
\* of this pass
Sleep ==
    /\ pc = "sleep"
    /\ pc' = "fetch" /\ NoRequest
    /\ movies' = <<>> /\ tv_shows' = <<>> /\ idx' = 0 /\ summary' = EmptySummary
    /\ UNCHANGED <<cfg, exit_code, svc>>

Next ==
    \/ StartMissing \/ StartChecked
    \/ Fetch \/ ProcessMovie \/ MoviesDone \/ ProcessShow \/ ShowsDone
    \/ Kometa \/ KometaSkipped \/ Report \/ Sleep

Spec == Init /\ [][Next]_vars

\* the process keeps running: a step that can be taken is taken
FairSpec == Spec /\ WF_vars(Next)

(***************************************************************************)
(* One call of an entry point, with any arguments, against a service that  *)
(* may give any answer.                                                    *)
(***************************************************************************)
\* the configurations with which the loop starts, manifest emission off
CallConfigs == {c \in Configs : ~MissingConfig(c) /\ ~c.kometa_enabled}

\* the calls run() can make
Requests ==
    {Ranged(t, m) : t \in FeedTitles, m \in 1..MaxSeason}
      \cup {Unscoped(t, k) : t \in FeedTitles, k \in {"movie", "tv"}}

InitReq ==
    /\ pc = "call" /\ cfg \in CallConfigs /\ req \in Requests
    /\ movies = <<>> /\ tv_shows = <<>> /\ idx = 0 /\ summary = EmptySummary
    /\ result = NoResult /\ locals = NoLocals /\ calls = <<>>
    /\ svc = [i \in Ids |-> {}] /\ exit_code = <<>>

\* request_tv_show_seasons(title, max_season), from the call to the return
CallRanged ==
    /\ pc = "call" /\ req.entry = "request_tv_show_seasons"
    /\ \E o \in RequestTvShowSeasons(req.title, req.max_season, cfg.dry_run, AnyService) :
         result' = Returned(o) /\ locals' = Locals(o) /\ calls' = o.calls
    /\ pc' = "returned"
    /\ UNCHANGED <<cfg, exit_code, movies, tv_shows, idx, summary, req, svc>>

\* request_in_overseerr(title, media_type), from the call to the return
CallUnscoped ==
    /\ pc = "call" /\ req.entry = "request_in_overseerr"
    /\ \E o \in RequestInOverseerr(req.title, req.media_type, cfg.dry_run, AnyService) :
         result' = Returned(o) /\ locals' = Locals(o) /\ calls' = o.calls
    /\ pc' = "returned"
    /\ UNCHANGED <<cfg, exit_code, movies, tv_shows, idx, summary, req, svc>>

NextReq == CallRanged \/ CallUnscoped

SpecReq == InitReq /\ [][NextReq]_vars

(***************************************************************************)
(* Reconciliation run again and again for a show, against a request        *)
(* service that keeps account of the seasons it holds.                     *)
(***************************************************************************)
\* the number of seasons of the show: one more than the feed ever names
TotalSeasons == MaxSeason + 1

\* the service holds any seasons of the show, requested by anyone
InitIdem ==
    /\ pc = "idle" /\ cfg \in CallConfigs /\ ~cfg.dry_run
    /\ movies = <<>> /\ tv_shows = <<>> /\ idx = 0 /\ summary = EmptySummary
    /\ req = NoCall /\ result = NoResult /\ locals = NoLocals /\ calls = <<>>
    /\ svc \in [Ids -> SUBSET (1..TotalSeasons)] /\ exit_code = <<>>

\* request_tv_show_seasons(title, max_season) for the show: the service
\* holds afterwards what the create calls added
Reconcile ==
    /\ pc = "idle"
    /\ \E title \in FeedTitles, max_season \in 1..MaxSeason :
         \E o \in RequestTvShowSeasons(title, max_season, cfg.dry_run,
                                       StoreService(svc[ShowId], TotalSeasons)) :
           /\ req' = Ranged(title, max_season)
           /\ result' = Returned(o) /\ locals' = Locals(o) /\ calls' = o.calls
           /\ svc' = [svc EXCEPT ![ShowId] = o.have]
    /\ pc' = "done"
    /\ UNCHANGED <<cfg, exit_code, movies, tv_shows, idx, summary>>

\* the next pass: nothing is kept but what the service holds
Again ==
    /\ pc = "done"
    /\ pc' = "idle" /\ NoRequest
    /\ UNCHANGED <<cfg, exit_code, movies, tv_shows, idx, summary, svc>>

NextIdem == Reconcile \/ Again

SpecIdem == InitIdem /\ [][NextIdem]_vars

(***************************************************************************)
(* One call of the existing-season lookup, for the identifier ShowId,      *)
(* against a service whose three endpoints answer in any way: svc is then  *)
(* the answers [req, media, tv] the endpoints give.                        *)
(***************************************************************************)
\* a 'tmdbId' of the requests listing that is not the one looked up
OtherId == 2

\* a season's own status and availability flag: pending, declined, and
\* declined but flagged available
RecordKinds ==
    {[status |-> 2, available |-> FALSE], [status |-> 4, available |-> FALSE],
     [status |-> 4, available |-> TRUE]}

\* the season records a response can list: season 0 is the specials
Records ==
    {[seasonNumber |-> n, status |-> k.status, available |-> k.available] :
        n \in 0..MaxSeason, k \in RecordKinds}

\* the lists of season records of a response: any order, repeats allowed
RecordLists == UNION {[1..n -> Records] : n \in 0..MaxRecords}

\* media_details with its three places for season records
MediaDetails(seasons, requests, mediaInfo) ==
    [seasons |-> seasons, requests |-> requests, mediaInfo |-> mediaInfo]

\* the answers of the requests listing: it fails, or lists one request, of
\* the identifier or of another, pending or declined, with the records
ListingAnswers(media_id, records) ==
    {NoAnswer(<<>>), Status(404, <<>>), Status(200, <<>>)}
      \cup {Json(200, <<[tmdbId |-> r[1], status |-> r[2], seasons |-> records]>>) :
              r \in {<<media_id, 2>>, <<media_id, 4>>, <<OtherId, 2>>}}

\* the answers of the media-details endpoint: it fails, or has the records
\* under 'seasons', under a request's 'seasons', or twice
MediaAnswers(records) ==
    {NoAnswer(MediaBody(<<>>)), Status(404, MediaBody(<<>>)), Status(403, MediaBody(<<>>)),
     Json(200, MediaDetails(records, <<>>, <<>>)),
     Json(200, MediaDetails(<<>>, <<[seasons |-> records]>>, <<>>)),
     Json(200, MediaDetails(records, <<>>, records))}

\* the answers of the TV-details endpoint
TvAnswers(records) ==
    {NoAnswer(TvBody(<<>>)), Status(404, TvBody(<<>>)), Status(403, TvBody(<<>>)),
     Json(200, TvBody(records))}

\* what the three endpoints answer about the identifier
ServiceAnswers(media_id) ==
    UNION {[req : ListingAnswers(media_id, records), media : MediaAnswers(records),
            tv : TvAnswers(records)] : records \in RecordLists}

\* the call get_existing_tv_requests(media_id)
Looking ==
    [entry |-> "get_existing_tv_requests", title |-> <<>>, media_type |-> "tv",
     max_season |-> 0]

InitLookup ==
    /\ pc = "lookup" /\ cfg \in CallConfigs /\ ~cfg.dry_run
    /\ movies = <<>> /\ tv_shows = <<>> /\ idx = 0 /\ summary = EmptySummary
    /\ req = NoCall /\ result = NoResult /\ locals = NoLocals /\ calls = <<>>
    /\ svc \in [Ids -> ServiceAnswers(ShowId)] /\ exit_code = <<>>

\* existing_seasons = self.get_existing_tv_requests(media_id)
Lookup ==
    /\ pc = "lookup"
    /\ LET lo == GetExistingTvRequests(ShowId, svc[ShowId])
       IN  /\ locals' = [media_item |-> [id |-> ShowId, mediaType |-> "tv"],
                         existing_seasons |-> lo.seasons]
           /\ calls' = LookupCalls(lo.gets)
    /\ req' = Looking /\ pc' = "looked"
    /\ UNCHANGED <<cfg, exit_code, movies, tv_shows, idx, summary, result, svc>>

NextLookup == Lookup

SpecLookup == InitLookup /\ [][NextLookup]_vars

(***************************************************************************)
(* One call of an entry point whose search gets any answer: svc is then    *)
(* the answer of the search endpoint.  A result's 'id' is its position in  *)
(* the list, its date 0 when it has none.                                  *)
(***************************************************************************)
\* the names of the results: the title in another case, and another name
ResultNames == {Lower(TitleX), TitleXY}

\* the results the search can list
ResultLists ==
    UNION {{[k \in 1..n |-> [id |-> k, mediaType |-> f[k][1], name |-> f[k][2],
                             date |-> f[k][3]]] :
              f \in [1..n -> {"movie", "tv"} \X ResultNames \X {0, 1, 2}]} :
           n \in 0..MaxResults}

\* the answers of the search endpoint
SearchReplies ==
    {NoAnswer(<<>>), Status(404, <<>>), Status(500, <<>>), Status(200, <<>>)}
      \cup {Json(200, results) : results \in ResultLists}

InitSearch ==
    /\ pc = "call" /\ cfg \in CallConfigs /\ req \in Requests
    /\ movies = <<>> /\ tv_shows = <<>> /\ idx = 0 /\ summary = EmptySummary
    /\ result = NoResult /\ locals = NoLocals /\ calls = <<>>
    /\ svc \in SearchReplies /\ exit_code = <<>>

\* request_tv_show_seasons(title, max_season), the search answered svc
SearchRanged ==
    /\ pc = "call" /\ req.entry = "request_tv_show_seasons"
    /\ \E o \in RangedAfterSearch(req.max_season, cfg.dry_run, PassService,
                                   RangedResolve(req.title, SessionGet(svc))) :
         result' = Returned(o) /\ locals' = Locals(o) /\ calls' = o.calls
    /\ pc' = "returned"
    /\ UNCHANGED <<cfg, exit_code, movies, tv_shows, idx, summary, req, svc>>

\* request_in_overseerr(title, media_type), the search answered svc
SearchUnscoped ==
    /\ pc = "call" /\ req.entry = "request_in_overseerr"
    /\ \E o \in UnscopedAfterSearch(req.media_type, cfg.dry_run, PassService,
                     UnscopedResolve(req.title, req.media_type, SessionGet(svc))) :
         result' = Returned(o) /\ locals' = Locals(o) /\ calls' = o.calls
    /\ pc' = "returned"
    /\ UNCHANGED <<cfg, exit_code, movies, tv_shows, idx, summary, req, svc>>

NextSearch == SearchRanged \/ SearchUnscoped

SpecSearch == InitSearch /\ [][NextSearch]_vars

(***************************************************************************)
(* The passes over any feed: svc is the answer of the feed's server.  The  *)
(* title of a row is its position in the feed, so that a title kept names  *)
(* its row.  A pass is followed up to its titles; the turns of the two     *)
(* loops are those of Spec.                                                *)
(***************************************************************************)
\* the title of the row at position k
FeedTitle(k) == [i \in 1..k |-> "X"]

\* the categories of f films and t shows of the latest week, in three orders
Orders(f, t) ==
    LET films == [k \in 1..f |-> "Films"]
        tv == [k \in 1..t |-> "TV"]
        both == IF f < t THEN f ELSE t
        turns == [k \in 1..(2 * both) |-> IF k % 2 = 1 THEN "Films" ELSE "TV"]
    IN  {films \o tv, tv \o films,
         turns \o [k \in 1..(f - both) |-> "Films"] \o [k \in 1..(t - both) |-> "TV"]}

\* rows that may not count: another country's, an earlier and a later week's,
\* another category's
OtherRows ==
    {Row(OtherCountry, 3, "Films", <<>>, LabelNA),
     Row(Country, 1, "Films", <<>>, LabelNA),
     Row(Country, 1, "TV", <<>>, SeasonLabel(1)),
     Row(Country, 3, "TV", <<>>, SeasonLabel(1)),
     Row(Country, 2, "Documentary", <<>>, LabelNA)}

\* the feeds: up to TopN + MaxOver rows of each category, of week 2
Feeds ==
    LET Titled(rows) ==
            [k \in 1..Len(rows) |-> [rows[k] EXCEPT !.show_title = FeedTitle(k)]]
        Edge == {<<>>} \cup {<<row>> : row \in OtherRows}
    IN  {Titled(pre \o [k \in 1..Len(cs) |->
                           Row(Country, 2, cs[k], <<>>,
                               IF cs[k] = "TV" THEN SeasonLabel(1) ELSE LabelNA)]
                    \o post) :
           pre \in Edge, post \in Edge,
           cs \in UNION {Orders(f, t) : f \in 0..(TopN + MaxOver),
                                       t \in 0..(TopN + MaxOver)}}

\* the answers of the feed's server
FeedReplies ==
    {NoAnswer(<<>>), Status(404, <<>>), Status(503, <<>>), Status(200, <<>>)}
      \cup {Json(200, rows) : rows \in Feeds}

InitFeed ==
    /\ pc = "fetch" /\ cfg \in {c \in Configs : ~MissingConfig(c)}
    /\ movies = <<>> /\ tv_shows = <<>> /\ idx = 0 /\ summary = EmptySummary
    /\ req = NoCall /\ result = NoResult /\ locals = NoLocals /\ calls = <<>>
    /\ svc \in FeedReplies /\ exit_code = <<>>

\* the top of the loop, the feed's server answering svc
FetchFeed == pc = "fetch" /\ FetchWith(svc)

NextFeed == FetchFeed \/ Kometa \/ KometaSkipped \/ Report \/ Sleep

SpecFeed == InitFeed /\ [][NextFeed]_vars

(***************************************************************************)
(* One call of the Season Extractor on any label of a show of the feed.    *)
(***************************************************************************)
\* the tokens of a label
LabelTokens == {"Show: ", "Season ", "Limited Series", "N/A", "0", "1", "2"}

\* the labels of up to MaxLabel tokens
Labels == UNION {[1..n -> LabelTokens] : n \in 0..MaxLabel}

InitLabel ==
    /\ pc = "call" /\ cfg \in CallConfigs
    /\ movies = <<>> /\ idx = 1 /\ summary = EmptySummary
    /\ tv_shows \in {<<[title |-> TitleX, season_title |-> label]>> : label \in Labels}
    /\ req = NoCall /\ result = NoResult /\ locals = NoLocals /\ calls = <<>>
    /\ svc = [id \in Ids |-> {}] /\ exit_code = <<>>

\* max_season = self._extract_season_number(show['season_title'])
ExtractSeason ==
    /\ pc = "call"
    /\ req' = [entry |-> "_extract_season_number", title |-> tv_shows[idx].title,
               media_type |-> "tv",
               max_season |-> ExtractSeasonNumber(tv_shows[idx].season_title)]
    /\ pc' = "returned"
    /\ UNCHANGED <<cfg, exit_code, movies, tv_shows, idx, summary, result, locals,
                   calls, svc>>

NextLabel == ExtractSeason

SpecLabel == InitLabel /\ [][NextLabel]_vars

(***************************************************************************)
(* The reporter's status of a title, over any two lists of the summary.    *)
(* The statuses are written without the marks that precede them.           *)
(***************************************************************************)
\* any(download.startswith(f"{title} (") for download in downloads)
AnyStartsWith(downloads, title) ==
    \E k \in 1..Len(downloads) : StartsWith(downloads[k].text, title \o <<" ", "(">>)

\* a variant that looks at existing_downloads first
GetTitleStatusExistingFirst(title, sm) ==
    IF AnyStartsWith(sm.existing_downloads, title) THEN "Already Requested"
    ELSE IF AnyStartsWith(sm.new_downloads, title) THEN "New Request"
    ELSE "Failed"

\* _get_title_status
GetTitleStatus(title, sm) ==
    IF AnyStartsWith(sm.new_downloads, title) THEN "New Request"
    ELSE IF AnyStartsWith(sm.existing_downloads, title) THEN "Already Requested"
    ELSE "Failed"

\* the lists of up to MaxEntries entries of films and shows
EntryLists ==
    LET entries == {MovieEntry(t) : t \in Titles} \cup {TvEntry(t, Text("")) : t \in Titles}
    IN  UNION {[1..n -> entries] : n \in 0..MaxEntries}

InitReport ==
    /\ pc = "report" /\ cfg \in CallConfigs
    /\ movies = <<>> /\ tv_shows = <<>> /\ idx = 0
    /\ summary \in {[EmptySummary EXCEPT !.top_movies = <<t>>, !.new_downloads = n,
                                          !.existing_downloads = e] :
                       t \in Titles, n \in EntryLists, e \in EntryLists}
    /\ req = NoCall /\ result = NoResult /\ locals = NoLocals /\ calls = <<>>
    /\ svc = [id \in Ids |-> {}] /\ exit_code = <<>>

\* _display_summary: status = self._get_title_status(title, summary)
TitleStatus ==
    /\ pc = "report"
    /\ req' = [entry |-> "_get_title_status", title |-> summary.top_movies[1],
               media_type |-> "movie", max_season |-> 0]
    /\ result' = [NoResult EXCEPT !.status = GetTitleStatus(summary.top_movies[1], summary)]
    /\ pc' = "reported"
    /\ UNCHANGED <<cfg, exit_code, movies, tv_shows, idx, summary, locals, calls, svc>>

NextReport == TitleStatus

SpecReport == InitReport /\ [][NextReport]_vars

(***************************************************************************)
(* A pass, dry-run off, over a feed of one film and one show labelled      *)
(* 'Show: Season 2', against a service that answers each call in any way:  *)
(* svc is the answer of the feed's server.                                 *)
(***************************************************************************)
\* the feed of one film and one show
FilmAndShow ==
    <<Row(Country, 2, "Films", TitleXY, LabelNA),
      Row(Country, 2, "TV", TitleX, SeasonLabel(2))>>

InitPass ==
    /\ pc = "fetch" /\ cfg \in {c \in Configs : ~MissingConfig(c) /\ ~c.dry_run}
    /\ movies = <<>> /\ tv_shows = <<>> /\ idx = 0 /\ summary = EmptySummary
    /\ req = NoCall /\ result = NoResult /\ locals = NoLocals /\ calls = <<>>
    /\ svc = Json(200, FilmAndShow) /\ exit_code = <<>>

\* the turns of the two loops, the service answering in any way
FilmTurn == MovieTurn(AnyService)
SeriesTurn == ShowTurn(AnyService)

NextPass ==
    \/ FetchFeed \/ FilmTurn \/ MoviesDone \/ SeriesTurn \/ ShowsDone
    \/ Kometa \/ KometaSkipped \/ Report \/ Sleep

SpecPass == InitPass /\ [][NextPass]_vars

(***************************************************************************)
(* The next wake time, lines 987-999 of run(): svc is then the clock,      *)
(* datetime.now() as the instant of the day, counted in ticks since        *)
(* midnight.  next_run is counted from the same midnight, sleep_seconds in *)
(* ticks.                                                                  *)
(***************************************************************************)
\* run_frequency_hours is None
NoFrequency == -1

\* now.replace(hour=2, minute=0, second=0, microsecond=0)
WakeHour == 2

\* timedelta(days=1), in hours
DayHours == 24

DayTicks == DayHours * TicksPerHour

\* a variant that keeps today's 02:00 when it is now
NextRunLate(now, run_frequency_hours) ==
    IF run_frequency_hours # NoFrequency
    THEN [next_run |-> now + run_frequency_hours * TicksPerHour,
          sleep_seconds |-> run_frequency_hours * TicksPerHour]
    ELSE LET at2 == WakeHour * TicksPerHour
             next_run == IF at2 < now THEN at2 + DayTicks ELSE at2
         IN  [next_run |-> next_run, sleep_seconds |-> next_run - now]

\* next_run and sleep_seconds
NextRun(now, run_frequency_hours) ==
    IF run_frequency_hours # NoFrequency
    THEN [next_run |-> now + run_frequency_hours * TicksPerHour,
          sleep_seconds |-> run_frequency_hours * TicksPerHour]
    ELSE LET at2 == WakeHour * TicksPerHour
             next_run == IF at2 <= now THEN at2 + DayTicks ELSE at2
         IN  [next_run |-> next_run, sleep_seconds |-> next_run - now]

\* the configurations of run(run_frequency_hours)
WakeConfigs ==
    {[overseerr_url |-> c.overseerr_url, overseerr_api_key |-> c.overseerr_api_key,
      dry_run |-> c.dry_run, kometa_enabled |-> c.kometa_enabled,
      run_frequency_hours |-> h] :
        c \in CallConfigs, h \in {NoFrequency} \cup 0..MaxInterval}

InitWake ==
    /\ pc = "report" /\ cfg \in WakeConfigs
    /\ movies = <<>> /\ tv_shows = <<>> /\ idx = 0
    /\ summary = [EmptySummary EXCEPT !.errors = <<FetchError>>]
    /\ req = NoCall /\ result = NoResult /\ calls = <<>>
    /\ locals = [next_run |-> 0, sleep_seconds |-> 0]
    /\ svc \in [now : 0..(DayTicks - 1)] /\ exit_code = <<>>

\* after _display_summary: next_run and sleep_seconds, before time.sleep
Schedule ==
    /\ pc = "report"
    /\ locals' = NextRun(svc.now, cfg.run_frequency_hours)
    /\ pc' = "sleep"
    /\ UNCHANGED <<cfg, exit_code, movies, tv_shows, idx, summary, req, result, calls,
                   svc>>

NextWake == Schedule

SpecWake == InitWake /\ [][NextWake]_vars

(***************************************************************************)
(* Properties.                                                             *)
(***************************************************************************)
\* the create calls among calls, in order
Creates(cs) == LET IsCreate(c) == c.path = PathCreate IN SelectSeq(cs, IsCreate)

\* the last element of a sequence that is not empty
Last(s) == s[Len(s)]

\* an entry point has returned
HasReturned == result.status # ""

\* the search gave the entry point a match
Resolved == locals.media_item.id # 0

IsRanged == req.entry = "request_tv_show_seasons"

\* the needed seasons 1..max_season that the lookup did not return
MissingSet == (1..req.max_season) \ Range(locals.existing_seasons)

\* C1: with dry-run enabled no step of the process, in any pass and with
\* manifest emission on or off, issues a create call
DryRunNeverPosts == cfg.dry_run => Creates(calls) = <<>>

\* a dry-run pass has resolved a show with a season range and returned dry_run
DryRunNeverPostsWitness ==
    /\ cfg.dry_run /\ cfg.kometa_enabled /\ pc = "shows" /\ IsRanged /\ Resolved
    /\ result.status = "dry_run" /\ Len(calls) > 1

\* C2 as stated: with dry-run enabled and the title resolved, the outcome is
\* dry_run on both entry points, for every existing-season set
DryRunOutcomeAlways ==
    (HasReturned /\ cfg.dry_run /\ Resolved) => result.status = "dry_run"

\* C2, amended: with dry-run enabled and the title resolved, the outcome is
\* dry_run, except in the season-ranged request when every needed season
\* already exists: the outcome is then existing_request; no create call is
\* issued in either case
DryRunOutcome ==
    (HasReturned /\ cfg.dry_run /\ Resolved) =>
        /\ Creates(calls) = <<>>
        /\ IF IsRanged /\ MissingSet = {}
           THEN result.status = "existing_request"
           ELSE result.status = "dry_run"

\* a dry run of the ranged request with a season missing and one existing
DryRunOutcomeWitness ==
    /\ HasReturned /\ cfg.dry_run /\ Resolved /\ IsRanged
    /\ locals.existing_seasons = <<1>> /\ req.max_season = 2
    /\ result.status = "dry_run" /\ result.message.seasons = <<2>>

\* C3: in the ranged request the first create call lists exactly the needed
\* seasons the lookup did not return, in ascending order; when there is none
\* the outcome is existing_request and no create call is issued
SeasonDelta ==
    (HasReturned /\ IsRanged /\ Resolved) =>
        /\ Creates(calls) # <<>> =>
             LET listed == Creates(calls)[1].seasons
             IN  /\ Range(listed) = MissingSet
                 /\ \A j, k \in 1..Len(listed) : j < k => listed[j] < listed[k]
        /\ MissingSet = {} =>
             result.status = "existing_request" /\ Creates(calls) = <<>>
        /\ (MissingSet # {} /\ ~cfg.dry_run) => Creates(calls) # <<>>

\* seasons 1..2 needed, season 1 exists: the create call lists season 2
SeasonDeltaWitness ==
    /\ HasReturned /\ IsRanged /\ Resolved /\ req.max_season = 2
    /\ locals.existing_seasons = <<1>>
    /\ Creates(calls) # <<>> /\ Creates(calls)[1].seasons = <<2>>

\* C4: a ranged request for a show whose seasons 1..max_season the service
\* already holds never returns new_request, whatever the lookup answered
Idempotence ==
    [][(pc = "idle" /\ pc' = "done" /\ (1..req'.max_season) \subseteq svc[ShowId])
          => result'.status # "new_request"]_vars

\* the lookup reported nothing, the create call was made and was refused
IdempotenceWitness ==
    /\ pc = "done" /\ Resolved /\ (1..req.max_season) \subseteq svc[ShowId]
    /\ locals.existing_seasons = <<>> /\ result.status = "existing_request"
    /\ Creates(calls) # <<>> /\ Last(Creates(calls)).code = 409

\* summary[list] has an entry of the title: download.startswith(f"{title} (")
HasEntry(title, list) ==
    \E k \in 1..Len(list) : StartsWith(list[k].text, title \o <<" ", "(">>)

\* C5 as stated: no title has an entry in both new_downloads and
\* existing_downloads of a pass's summary
OneList ==
    \A title \in Titles :
        ~(HasEntry(title, summary.new_downloads)
            /\ HasEntry(title, summary.existing_downloads))

\* the entries of the summary, of the three lists together
Recorded ==
    Len(summary.new_downloads) + Len(summary.existing_downloads) + Len(summary.errors)

\* the result of the step taken last is neither new_request nor existing_request
Failed == HasReturned /\ result.status \notin {"new_request", "existing_request"}

\* C6: a title whose processing ends in an error outcome, a caught exception
\* included, gets an entry in errors, and every title of the pass is
\* processed: the movies in order, then the shows
Isolation ==
    /\ pc = "movies" => Recorded = idx - 1 /\ idx <= Len(movies) + 1
    /\ pc = "shows" => Recorded = Len(movies) + idx - 1 /\ idx <= Len(tv_shows) + 1
    /\ (pc \in {"kometa", "report", "sleep"} /\ summary.top_movies \o summary.top_shows # <<>>)
         => Recorded = Len(movies) + Len(tv_shows)
    /\ (pc \in {"movies", "shows"} /\ Failed) =>
         /\ summary.errors # <<>>
         /\ Last(summary.errors).message = result.message
         /\ Last(summary.errors).text =
              <<IF req.media_type = "movie" THEN "Failed to request movie: "
                ELSE "Failed to request TV show: ">> \o req.title \o <<" - ">>

\* a movie's search got no answer, and the show after it was requested
IsolationWitness ==
    /\ pc = "shows" /\ idx = 2 /\ Len(summary.errors) = 1
    /\ summary.errors[1].text[1] = "Failed to request movie: "
    /\ summary.errors[1].message.text = "Exception: {e}"
    /\ result.status = "new_request" /\ Len(summary.new_downloads) = 1

\* C7: every pass reaches the reporter and the sleep, after each sleep a new
\* pass begins, and the loop once started never exits
LoopForever ==
    /\ (pc = "fetch") ~> (pc = "report" /\ exit_code = <<>>)
    /\ (pc = "report") ~> (pc = "sleep" /\ exit_code = <<>>)
    /\ (pc = "sleep") ~> (pc = "fetch" /\ exit_code = <<>>)

\* a pass whose feed could not be fetched has reached the sleep
LoopForeverWitness ==
    pc = "sleep" /\ summary.errors = <<FetchError>>

\* the calls are none but the status check
OnlyStatus(cs) == \A k \in 1..Len(cs) : cs[k].path = PathStatus

\* the status check was made and did not succeed
HealthFailed(cs) ==
    cs # <<>> /\ cs[1].path = PathStatus /\ (cs[1].code = 0 \/ cs[1].code >= 400)

\* C8: with the URL or the key absent, or the status check failing, the
\* process exits with a non-zero code and stays exited, having made no feed
\* fetch, search or create call
FatalStartup ==
    [][/\ pc # "exited"
       /\ pc = "start" =>
            IF MissingConfig(cfg) \/ HealthFailed(calls')
            THEN /\ pc' = "exited" /\ Len(exit_code') = 1 /\ exit_code'[1] # 0
                 /\ OnlyStatus(calls') /\ summary' = EmptySummary
                 /\ MissingConfig(cfg) => calls' = <<>>
            ELSE pc' = "fetch" /\ exit_code' = <<>>]_vars

\* the status check was answered 401 and the process has exited
FatalStartupWitness ==
    /\ pc = "exited" /\ ~MissingConfig(cfg) /\ exit_code = <<ExitCode>>
    /\ Len(calls) = 1 /\ calls[1].code = 401

\* C9 as stated: when the last create call answers 201 the outcome is
\* new_request, when it answers 409 the outcome is existing_request
LastAnswerDecides ==
    (HasReturned /\ Creates(calls) # <<>>) =>
        /\ Last(Creates(calls)).code = 201 => result.status = "new_request"
        /\ Last(Creates(calls)).code = 409 => result.status = "existing_request"

\* the create calls after the first, when the first answered 'No seasons
\* available to request' in the ranged request: the individual calls
Individual ==
    IF IsRanged /\ Creates(calls) # <<>> /\ Creates(calls)[1].body = MsgNoSeasons
         /\ Creates(calls)[1].code \notin {0, 201, 409}
    THEN Tail(Creates(calls)) ELSE <<>>

\* some individual call answered 201
SomeCreated == \E k \in 1..Len(Individual) : Individual[k].code = 201

\* C9, amended: when the last create call answers 201 the outcome is
\* new_request; when it answers 409 the outcome is existing_request, unless
\* an individual-season call of the ranged request answered 201 before it:
\* the outcome is then new_request; a conflict is never an error
LastAnswer ==
    (HasReturned /\ Creates(calls) # <<>>) =>
        /\ Last(Creates(calls)).code = 201 => result.status = "new_request"
        /\ Last(Creates(calls)).code = 409 =>
             result.status = IF SomeCreated THEN "new_request" ELSE "existing_request"

\* the unscoped request of a show: the bare call failed, the retry with
\* season 1 answered 409
LastAnswerWitness ==
    /\ HasReturned /\ ~IsRanged /\ Len(Creates(calls)) = 2
    /\ Last(Creates(calls)).code = 409 /\ Last(Creates(calls)).seasons = <<1>>
    /\ result.status = "existing_request"

\* the seasons of the individual calls that answered 201, in order
CreatedSeasons ==
    LET Ok(c) == c.code = 201
        ok == SelectSeq(Individual, Ok)
    IN  [k \in 1..Len(ok) |-> ok[k].seasons[1]]

\* the individual calls are one for each season of todo, in order
OneEach(todo) ==
    /\ Len(Individual) = Len(todo)
    /\ \A k \in 1..Len(todo) : Individual[k].seasons = <<todo[k]>>

\* the ranged request has returned from its individual-season fallback
FellBack ==
    /\ HasReturned /\ IsRanged /\ Creates(calls) # <<>>
    /\ Creates(calls)[1].body = MsgNoSeasons /\ Creates(calls)[1].code \notin {0, 201, 409}

\* C10 as stated: each missing season is submitted once, in ascending order;
\* new_request naming the seasons answered 201 when there is one, else
\* existing_request, whatever the individual calls answered
FallbackAlways ==
    FellBack =>
        /\ OneEach(Creates(calls)[1].seasons)
        /\ IF CreatedSeasons # <<>>
           THEN result.status = "new_request" /\ result.message.seasons = CreatedSeasons
           ELSE result.status = "existing_request"

\* an individual call got no answer, or an error whose body is not JSON
Unread(c) == c.code = 0 \/ (c.code \notin {201, 409} /\ c.body = NotJson)

\* C10, amended: as long as every individual call is answered with a status
\* and, when it is an error, a JSON body, each missing season is submitted
\* once in ascending order and the outcome is new_request naming the seasons
\* answered 201, or existing_request when there is none; the first call that
\* is not ends the loop and the outcome is error
Fallback ==
    FellBack =>
        LET todo == Creates(calls)[1].seasons
        IN  IF \E k \in 1..Len(Individual) : Unread(Individual[k])
            THEN /\ Unread(Last(Individual))
                 /\ \A k \in 1..(Len(Individual) - 1) : ~Unread(Individual[k])
                 /\ OneEach(SubSeq(todo, 1, Len(Individual)))
                 /\ Len(Individual) <= Len(todo)
                 /\ result.status = "error"
            ELSE /\ OneEach(todo)
                 /\ IF CreatedSeasons # <<>>
                    THEN /\ result.status = "new_request"
                         /\ result.message.seasons = CreatedSeasons
                    ELSE result.status = "existing_request"

\* seasons 1 and 2 submitted one by one: the first refused, the second created
FallbackWitness ==
    /\ FellBack /\ Len(Individual) = 2
    /\ Individual[1].code = 500 /\ Individual[2].code = 201
    /\ result.status = "new_request" /\ result.message.seasons = <<2>>

\* the answer of a create call is an error whose message is msg
FailedWith(c, msg) == c.code \notin {0, 201, 409} /\ c.body = msg

\* the ranged request has returned after its first create call failed with
\* 'Could not find any entity of type "Media"'
NotInDatabase ==
    /\ HasReturned /\ IsRanged /\ Creates(calls) # <<>>
    /\ FailedWith(Creates(calls)[1], MsgMedia)

\* C11: in the ranged request, after the create call failed with 'Could not
\* find any entity of type "Media"', exactly one more create call is made,
\* with no season list, and its answer alone decides: 201 new_request, 409
\* existing_request, anything else error
ImportOnce ==
    NotInDatabase =>
        /\ Len(Creates(calls)) = 2
        /\ Creates(calls)[1].seasons # <<>>
        /\ Creates(calls)[2].seasons = <<>>
        /\ result.status =
             CASE Creates(calls)[2].code = 201 -> "new_request"
               [] Creates(calls)[2].code = 409 -> "existing_request"
               [] OTHER -> "error"

\* the import call was answered with the same error: no third call, an error
ImportOnceWitness ==
    /\ NotInDatabase /\ Len(Creates(calls)) = 2
    /\ FailedWith(Creates(calls)[2], MsgMedia)
    /\ result.status = "error" /\ result.message.detail = MsgMedia

\* C12 as stated: a create call answered with the crash message "Cannot read
\* properties of undefined (reading 'filter')" is the last create call for the
\* title, and the outcome is the error that advises the web UI, which is
\* neither not_found nor the error that carries the service's message
DefectDistinct ==
    HasReturned =>
        \A k \in 1..Len(Creates(calls)) :
            FailedWith(Creates(calls)[k], MsgFilter) =>
                /\ k = Len(Creates(calls))
                /\ result.status = "error"
                /\ result.message.text = "Overseerr API bug - try requesting via web UI"

\* the unscoped request, for a TV title
IsUnscopedTv == req.entry = "request_in_overseerr" /\ req.media_type = "tv"

\* the errors of the bare call after which the chain goes on with season 1
SeasonRelated == {MsgTvDetails, Msg404, MsgUndefined, MsgFilter}

\* C13: in the unscoped request of a TV title the first create call carries
\* no season list; a failure with a season-related error is followed by the
\* calls with season [1], then [2], then [3], in that order, and a call that
\* answers 201 or 409 is the last call made (the one call after the chain is
\* the bare import that follows the 'Media' not-found error)
RetryChain ==
    (HasReturned /\ IsUnscopedTv /\ Creates(calls) # <<>>) =>
        LET cs == Creates(calls)
        IN  /\ cs[1].seasons = <<>>
            /\ \A k \in 2..Len(cs) :
                 \/ /\ cs[k].seasons = <<k - 1>> /\ k <= 4
                    /\ IF k = 2
                       THEN \E m \in SeasonRelated : FailedWith(cs[1], m)
                       ELSE FailedWith(cs[k - 1], MsgNoSeasons)
                 \/ /\ cs[k].seasons = <<>> /\ k = Len(cs)
                    /\ FailedWith(cs[k - 1], MsgMedia)
            /\ \A k \in 1..Len(cs) : cs[k].code \in {201, 409} => k = Len(cs)
            /\ (\E m \in SeasonRelated : FailedWith(cs[1], m)) =>
                 Len(cs) >= 2 /\ cs[2].seasons = <<1>>
            /\ \A k \in 2..3 :
                 (k <= Len(cs) /\ cs[k].seasons # <<>> /\ FailedWith(cs[k], MsgNoSeasons))
                     => Len(cs) > k /\ cs[k + 1].seasons = <<k>>

\* the bare call and the calls with seasons 1 and 2 failed, season 3 was created
RetryChainWitness ==
    /\ HasReturned /\ IsUnscopedTv /\ Len(Creates(calls)) = 4
    /\ Creates(calls)[2].seasons = <<1>> /\ Creates(calls)[3].seasons = <<2>>
    /\ Creates(calls)[4].seasons = <<3>> /\ Creates(calls)[4].code = 201
    /\ result.status = "new_request"

\* the show loop is about to process a show
AtShow == pc = "shows" /\ idx <= Len(tv_shows)

\* C14 as stated: for every ranked show the scheduler calls the ranged request
\* exactly when the Season Extractor returns an integer for the show's label,
\* and the unscoped request exactly when it returns indeterminate
RangedIffInteger ==
    [][AtShow =>
          LET max_season == ExtractSeasonNumber(tv_shows[idx].season_title)
          IN  /\ req'.entry \in {"request_tv_show_seasons", "request_in_overseerr"}
              /\ req'.entry = "request_tv_show_seasons" <=> max_season # Indeterminate
              /\ req'.entry = "request_in_overseerr" <=> max_season = Indeterminate]_vars

\* C14, amended: the scheduler calls the ranged request, with the extracted
\* number as max_season, exactly when the Season Extractor returns an integer
\* greater than 0; when it returns indeterminate or 0 (a label such as
\* 'Season 0') it calls the unscoped request for a TV title
RangedIffPositive ==
    [][AtShow =>
          LET title == tv_shows[idx].title
              max_season == ExtractSeasonNumber(tv_shows[idx].season_title)
          IN  IF max_season > 0
              THEN req' = Ranged(title, max_season)
              ELSE /\ max_season \in {Indeterminate, 0}
                   /\ req' = Unscoped(title, "tv")]_vars

\* a show labelled 'Season 0' was requested with the unscoped request
RangedIffPositiveWitness ==
    /\ pc = "shows" /\ idx = 2 /\ tv_shows[1].season_title = SeasonLabel(0)
    /\ ExtractSeasonNumber(tv_shows[1].season_title) = 0
    /\ req = Unscoped(tv_shows[1].title, "tv") /\ HasReturned

\* the calls of the existing-season lookup among calls, in order
Lookups(cs) ==
    LET IsLookup(c) == c.path \in {PathRequests, PathMedia, PathTv}
    IN  SelectSeq(cs, IsLookup)

\* C15 as stated: in dry-run mode both entry points make the search and the
\* existing-season lookup before they return, and the seasons the dry_run
\* outcome names are the needed seasons the lookup did not return
DryRunLooksUp ==
    (HasReturned /\ cfg.dry_run /\ Resolved) =>
        /\ calls[1].path = PathSearch
        /\ Lookups(calls) # <<>>
        /\ result.status = "dry_run" => Range(result.message.seasons) = MissingSet

\* C15, amended: in dry-run mode the ranged request makes the search, then
\* the existing-season lookup, and no other call, and its dry_run outcome
\* names the needed seasons the lookup did not return, in ascending order;
\* the unscoped request makes the search only and names no season
DryRunReadOnly ==
    (HasReturned /\ cfg.dry_run /\ Resolved) =>
        /\ calls[1].path = PathSearch
        /\ IF IsRanged
           THEN /\ Len(calls) >= 2 /\ calls[2].path = PathRequests
                /\ Lookups(calls) = Tail(calls)
                /\ result.status = "dry_run" =>
                     /\ MissingSet # {}
                     /\ result.message.seasons = SortedSet(MissingSet)
           ELSE /\ Len(calls) = 1
                /\ result.status = "dry_run" /\ result.message.seasons = <<>>

\* a dry run of the ranged request whose lookup went through the three
\* endpoints and found season 2: the outcome names season 1
DryRunReadOnlyWitness ==
    /\ HasReturned /\ cfg.dry_run /\ Resolved /\ IsRanged /\ req.max_season = 2
    /\ Len(Lookups(calls)) = 3 /\ locals.existing_seasons = <<2>>
    /\ result.status = "dry_run" /\ result.message.seasons = <<1>>

\* the existing-season lookup has returned
Looked == pc = "looked"

\* the endpoint queried last
Supplier == Last(calls).path

\* what the code got from an endpoint
Heard(path) ==
    SessionGet(CASE path = PathRequests -> svc[ShowId].req
                 [] path = PathMedia -> svc[ShowId].media
                 [] path = PathTv -> svc[ShowId].tv)

\* the endpoint answered 200 with a body that parses
Readable(path) == Heard(path).code = 200 /\ Heard(path).json

\* the requests of the identifier in the requests listing
Mine == {q \in Range(Heard(PathRequests).body) : q.tmdbId = ShowId}

\* the season records an endpoint's answer lists for the identifier
ListedBy(path) ==
    CASE path = PathRequests -> UNION {Range(q.seasons) : q \in Mine}
      [] path = PathMedia ->
           LET b == Heard(PathMedia).body
           IN  Range(b.seasons) \cup Range(b.mediaInfo)
                 \cup UNION {Range(q.seasons) : q \in Range(b.requests)}
      [] path = PathTv -> Range(Heard(PathTv).body.seasons)

\* a season record of number n whose own status is pending, approved or
\* available, or whose availability flag is true
Accepted(r, n) == r.seasonNumber = n /\ (r.status \in {2, 3, 5} \/ r.available)

\* C16 as stated: every season number the lookup returns is greater than 0
\* and is the number of a season record, of the endpoint that supplied it,
\* whose own status is 2, 3 or 5 or whose availability flag is true
SeasonsAccepted ==
    Looked =>
        \A n \in Range(locals.existing_seasons) :
            n > 0 /\ \E r \in ListedBy(Supplier) : Accepted(r, n)

\* C16, amended: every season number the lookup returns is greater than 0;
\* when the media-details or the TV-details endpoint supplied it, it is the
\* number of a season record whose own status is 2, 3 or 5 or whose
\* availability flag is true; when the requests listing supplied it, it is
\* the number of a season record of a request of the identifier whose
\* request status is 2, 3 or 5, whatever the season's own status and flag
SeasonsCommitted ==
    Looked =>
        \A n \in Range(locals.existing_seasons) :
            /\ n > 0
            /\ IF Supplier = PathRequests
               THEN \E q \in Mine :
                       /\ q.status \in {2, 3, 5}
                       /\ \E r \in Range(q.seasons) : r.seasonNumber = n
               ELSE \E r \in ListedBy(Supplier) : Accepted(r, n)

\* the requests listing has a pending request whose season 1 is declined and
\* not available: the lookup returns season 1
SeasonsCommittedWitness ==
    /\ Looked /\ Supplier = PathRequests /\ locals.existing_seasons = <<1>>
    /\ \A r \in ListedBy(PathRequests) : r.status = 4 /\ ~r.available

\* C17 as stated: the lookup returns the season numbers in ascending order
\* with no number repeated
SortedNoRepeat ==
    Looked =>
        \A j, k \in 1..Len(locals.existing_seasons) :
            j < k => locals.existing_seasons[j] < locals.existing_seasons[k]

\* C18 as stated: an endpoint of the lookup answered 404 and the lookup
\* returned the empty set
NotFoundIsEmpty ==
    Looked =>
        ((\E k \in 1..Len(calls) : calls[k].code = 404)
            => locals.existing_seasons = <<>>)

\* C18, amended: a 404 of the media-details or of the TV-details endpoint
\* ends the lookup, which returns the empty set; after a 404 of the requests
\* listing the lookup queries the media-details endpoint, and returns what
\* the endpoint queried last supplies
NotFoundEnds ==
    Looked =>
        \A k \in 1..Len(calls) :
            calls[k].code = 404 =>
                IF calls[k].path = PathRequests
                THEN /\ k = 1 /\ Len(calls) >= 2 /\ calls[2].path = PathMedia
                     /\ locals.existing_seasons # <<>> => Readable(Supplier)
                ELSE k = Len(calls) /\ locals.existing_seasons = <<>>

\* the requests listing answered 404 and the media details supplied season 1
NotFoundEndsWitness ==
    /\ Looked /\ Len(calls) = 2 /\ calls[1].code = 404 /\ calls[2].code = 200
    /\ locals.existing_seasons = <<1>>

\* what the lookup takes from an endpoint's answer
TakenFrom(path) ==
    IF ~Readable(path) THEN <<>>
    ELSE CASE path = PathRequests ->
                ExtractSeasonsFromRequests(Heard(PathRequests).body, ShowId)
           [] path = PathMedia -> ExtractSeasonsFromMedia(Heard(PathMedia).body)
           [] path = PathTv -> ExtractSeasonsFromTv(Heard(PathTv).body)

\* C19: the lookup queries the requests listing, then the media details,
\* then the TV details, in that order; the media details only when the
\* requests listing gave no seasons, the TV details only when the media
\* details answered neither 200 nor 404; the result is what the endpoint
\* queried last supplies
EndpointOrder ==
    Looked =>
        /\ Len(calls) \in 1..3
        /\ [k \in 1..Len(calls) |-> calls[k].path]
             = SubSeq(<<PathRequests, PathMedia, PathTv>>, 1, Len(calls))
        /\ Len(calls) >= 2 => TakenFrom(PathRequests) = <<>>
        /\ TakenFrom(PathRequests) # <<>> => Len(calls) = 1
        /\ Len(calls) = 3 => calls[2].code \notin {200, 404}
        /\ (Len(calls) >= 2 /\ calls[2].code \in {200, 404}) => Len(calls) = 2
        /\ locals.existing_seasons = TakenFrom(Supplier)

\* the three endpoints were queried and the TV details supplied seasons 1, 2
EndpointOrderWitness ==
    /\ Looked /\ Len(calls) = 3 /\ calls[1].code = 200 /\ calls[2].code = 403
    /\ calls[3].code = 200 /\ locals.existing_seasons = <<1, 2>>

\* every endpoint the lookup queried failed: no answer, or a status other
\* than 200
LookupFailed ==
    /\ Lookups(calls) # <<>>
    /\ \A k \in 1..Len(Lookups(calls)) : Lookups(calls)[k].code # 200

\* C20: when every endpoint of the lookup fails, by a transport exception or
\* a status other than 200, the lookup returns the empty set and the ranged
\* request goes on as if no season existed: it asks for all of 1..max_season
AllFailContinues ==
    (HasReturned /\ IsRanged /\ Resolved /\ LookupFailed) =>
        /\ locals.existing_seasons = <<>>
        /\ IF cfg.dry_run
           THEN /\ result.status = "dry_run"
                /\ result.message.seasons = RangeList(1, req.max_season)
           ELSE /\ Creates(calls) # <<>>
                /\ Creates(calls)[1].seasons = RangeList(1, req.max_season)

\* the requests listing and the media details answered 403, the TV details
\* gave no answer: seasons 1 and 2 were requested and created
AllFailContinuesWitness ==
    /\ HasReturned /\ IsRanged /\ Resolved /\ ~cfg.dry_run
    /\ Len(Lookups(calls)) = 3 /\ Lookups(calls)[1].code = 403
    /\ Lookups(calls)[2].code = 403 /\ Lookups(calls)[3].code = 0
    /\ Creates(calls)[1].seasons = <<1, 2>> /\ result.status = "new_request"

\* the search listed results: the list
Hits == svc.body

\* the search answered 200 with a list of results that is not empty
Listed == svc.code = 200 /\ svc.json /\ Hits # <<>>

\* the position of the result the entry point took, 0 when it took none
Picked == locals.media_item.id

\* the positions of the results whose name is the title, whatever the case,
\* and whose kind is the kind looked for
ExactAt ==
    {k \in 1..Len(Hits) :
        Lower(Hits[k].name) = Lower(req.title) /\ Hits[k].mediaType = req.media_type}

\* the first position, among S, of a result with the latest date of S
Newest(S) == Min({k \in S : \A j \in S : Hits[j].date <= Hits[k].date})

\* C21 as stated: over a list of results that is not empty, both entry points
\* take the first result of the name and the kind, and when there is none
\* the first result of the whole list sorted by date, latest first
ResolverRule ==
    (HasReturned /\ Listed) =>
        Picked = IF ExactAt # {} THEN Min(ExactAt) ELSE Newest(1..Len(Hits))

\* C21, amended: the unscoped request takes the first result of the name and
\* the kind, and when there is none the first result of the whole list
\* sorted by date, latest first; the ranged request looks at the results of
\* kind tv only: it takes the first of them of the name, when there is none
\* the first of them sorted by date, latest first, and when the list has no
\* result of kind tv it takes none and the outcome is not_found
ResolverRuleByEntry ==
    (HasReturned /\ Listed) =>
        IF IsRanged
        THEN LET tv == {k \in 1..Len(Hits) : Hits[k].mediaType = "tv"}
             IN  IF tv = {} THEN Picked = 0 /\ result.status = "not_found"
                 ELSE Picked = IF ExactAt # {} THEN Min(ExactAt) ELSE Newest(tv)
        ELSE Picked = IF ExactAt # {} THEN Min(ExactAt) ELSE Newest(1..Len(Hits))

\* the ranged request, a later film listed before a show of another name:
\* the show is taken
ResolverRuleByEntryWitness ==
    /\ HasReturned /\ Listed /\ IsRanged /\ Len(Hits) = 2 /\ ExactAt = {}
    /\ Hits[1].mediaType = "movie" /\ Hits[1].date = 2
    /\ Hits[2].mediaType = "tv" /\ Hits[2].date = 1 /\ Picked = 2

\* C22: on both entry points a search that gets no answer or a status other
\* than 200 gives an error outcome, a 200 answer with an empty list of
\* results a not_found outcome, and in both cases the search is the only
\* call made
SearchDecides ==
    HasReturned =>
        /\ svc.code # 200 =>
             result.status = "error" /\ Len(calls) = 1 /\ calls[1].path = PathSearch
        /\ (svc.code = 200 /\ svc.json /\ svc.body = <<>>) =>
             result.status = "not_found" /\ Len(calls) = 1 /\ calls[1].path = PathSearch

\* the unscoped request of a film whose search answered 404
SearchDecidesWitness ==
    /\ HasReturned /\ ~IsRanged /\ req.media_type = "movie" /\ svc.code = 404
    /\ result.status = "error" /\ result.message.code = 404 /\ Len(calls) = 1

\* the feed's server answered with rows: the rows
FeedRows == svc.body

\* the feed was read: the answer is a 200 whose rows parse
FeedRead == svc.code = 200 /\ svc.json

\* the positions of the rows of the configured country
OfCountry == {j \in 1..Len(FeedRows) : FeedRows[j].country_name = Country}

\* the positions of the rows of the country whose week is the latest of the
\* country's weeks
Latest == {j \in OfCountry : \A i \in OfCountry : FeedRows[i].week <= FeedRows[j].week}

\* the pass holds the lists get_netflix_top10 returned
Fetched == pc \in {"movies", "kometa"}

\* C23: every title of the two lists returned is the title of a row of the
\* configured country whose week is the latest week of that country's rows
LatestWeekOnly ==
    (Fetched /\ FeedRead) =>
        /\ \A k \in 1..Len(movies) :
             \E j \in Latest : FeedRows[j].show_title = movies[k]
        /\ \A k \in 1..Len(tv_shows) :
             \E j \in Latest : FeedRows[j].show_title = tv_shows[k].title

\* a feed whose last row is of a later week of the country: that row alone
\* is kept, though rows of the country come before it
LatestWeekOnlyWitness ==
    /\ Fetched /\ FeedRead /\ Len(FeedRows) > 2 /\ Cardinality(OfCountry) > 2
    /\ FeedRows[Len(FeedRows)].week = 3 /\ FeedRows[Len(FeedRows)].country_name = Country
    /\ movies = <<>> /\ tv_shows # <<>>
    /\ tv_shows[1].title = FeedTitle(Len(FeedRows))

\* the positions of the rows of a category that count
Counting(category) == {j \in Latest : FeedRows[j].category = category}

\* the position of the k-th row of a set of positions
Kth(P, k) == CHOOSE j \in P : Cardinality({i \in P : i <= j}) = k

\* the titles of the first ten rows that count of a category, in feed order
FirstTen(category) ==
    LET P == Counting(category)
        n == IF Cardinality(P) < 10 THEN Cardinality(P) ELSE 10
    IN  [k \in 1..n |-> FeedRows[Kth(P, k)].show_title]

\* C24: each of the two lists has at most ten entries, and is the first ten
\* rows of its category in feed order
TopTen ==
    (Fetched /\ FeedRead) =>
        /\ Len(movies) <= 10 /\ Len(tv_shows) <= 10
        /\ movies = FirstTen("Films")
        /\ [k \in 1..Len(tv_shows) |-> tv_shows[k].title] = FirstTen("TV")

\* a feed of more than ten films and more than ten shows, in turns
TopTenWitness ==
    /\ Fetched /\ FeedRead
    /\ Cardinality(Counting("Films")) > 10 /\ Cardinality(Counting("TV")) > 10
    /\ Len(movies) = 10 /\ Len(tv_shows) = 10
    /\ movies[2] = FeedTitle(3) /\ tv_shows[2].title = FeedTitle(4)

\* the fetch cannot give titles: the server gave no answer or an error
\* status, the rows do not parse, or no row is of the configured country
FeedFailed == ~FeedRead \/ OfCountry = {}

\* C25: when the feed cannot be fetched or parsed, or has no row of the
\* configured country, the fetcher returns two empty lists and the process
\* does not end: the pass records the failure and goes on to the manifest
\* step, the reporter and the sleep, and the next pass begins
FeedFailureContinues ==
    [][FeedFailed =>
         /\ exit_code' = <<>> /\ pc' # "exited"
         /\ pc = "fetch" =>
               /\ movies' = <<>> /\ tv_shows' = <<>>
               /\ summary'.errors = <<FetchError>> /\ pc' = "kometa"
         /\ pc = "kometa" => pc' = "report" /\ summary' = summary
         /\ pc = "report" => pc' = "sleep" /\ summary' = summary
         /\ pc = "sleep" => pc' = "fetch"]_vars

\* a pass over a feed of another country's rows only has reached the sleep
FeedFailureContinuesWitness ==
    /\ pc = "sleep" /\ FeedRead /\ FeedRows # <<>> /\ OfCountry = {}
    /\ summary.errors = <<FetchError>> /\ summary.new_downloads = <<>>
    /\ exit_code = <<>>

\* the extractor has returned
Extracted == req.entry = "_extract_season_number"

\* the label the extractor was given
Label == tv_shows[1].season_title

\* the label holds the token
Holds(token) == \E k \in 1..Len(Label) : Label[k] = token

\* the positions of the label where 'Season ' stands before a digit
SeasonAt ==
    {k \in 1..(Len(Label) - 1) : Label[k] = "Season " /\ Label[k + 1] \in Digits}

\* the number written by the digits that follow position k
NumberAfter(k) ==
    LET n == CHOOSE m \in 1..(Len(Label) - k) :
                 /\ \A i \in 1..m : Label[k + i] \in Digits
                 /\ (k + m = Len(Label) \/ Label[k + m + 1] \notin Digits)
    IN  IntOf(Label, k + 1, n)

Reported == req.entry = "_get_title_status"

\* some entry of the list begins with the title, a space and a parenthesis
Begins(downloads) ==
    \E k \in 1..Len(downloads) :
        LET text == downloads[k].text
            n == Len(req.title)
        IN  /\ Len(text) >= n + 2
            /\ \A i \in 1..n : text[i] = req.title[i]
            /\ text[n + 1] = " " /\ text[n + 2] = "("

\* C27: the reporter's status of a title is 'New Request' when an entry of
\* new_downloads begins with '<title> (', otherwise 'Already Requested' when
\* an entry of existing_downloads does, otherwise 'Failed'; a title in both
\* lists is 'New Request'
StatusRule ==
    Reported =>
        result.status =
            IF Begins(summary.new_downloads) THEN "New Request"
            ELSE IF Begins(summary.existing_downloads) THEN "Already Requested"
            ELSE "Failed"

\* a title with an entry in both lists is reported as a new request
StatusRuleWitness ==
    /\ Reported /\ req.title = TitleX
    /\ summary.new_downloads = <<TvEntry(TitleX, Text(""))>>
    /\ summary.existing_downloads = <<MovieEntry(TitleX)>>
    /\ result.status = "New Request"

\* the pass of one film and one show labelled 'Show: Season 2', dry-run off,
\* has requested the film and is about to request the show
FilmRequested ==
    /\ pc = "shows" /\ idx = 1 /\ ~cfg.dry_run
    /\ Len(movies) = 1 /\ Len(tv_shows) = 1
    /\ tv_shows[1].season_title = SeasonLabel(2)
    /\ summary.new_downloads = <<MovieEntry(movies[1])>>
    /\ summary.existing_downloads = <<>> /\ summary.errors = <<>>

\* the show's turn: its search resolved, its lookup gave no season, and the
\* service created what it was asked to
ShowCreated ==
    /\ locals'.media_item.id # NoId /\ locals'.existing_seasons = <<>>
    /\ \A k \in 1..Len(calls') : calls'[k].path = PathCreate => calls'[k].code = 201

\* C28: in a pass, dry-run off, over a feed of one film and one show
\* labelled 'Show: Season 2', where the search resolves both, the lookup
\* gives no season and every create call is answered 201, one create call
\* is made for the show, with seasons 1 and 2, and the summary holds two
\* new_downloads entries, the film's and the show's naming seasons 1 and 2,
\* no existing_downloads entry and no error
EndToEnd ==
    [][(FilmRequested /\ ShowCreated) =>
         /\ Len(Creates(calls')) = 1 /\ Creates(calls')[1].seasons = <<1, 2>>
         /\ summary'.new_downloads =
               <<MovieEntry(movies[1]),
                 TvEntry(tv_shows[1].title,
                         Message("Successfully requested seasons", <<1, 2>>, <<>>, ""))>>
         /\ summary'.existing_downloads = <<>> /\ summary'.errors = <<>>]_vars

\* the pass after the show's turn: two new requests, the show's for
\* seasons 1 and 2
EndToEndWitness ==
    /\ pc = "shows" /\ idx = 2 /\ ~cfg.dry_run /\ Len(movies) = 1
    /\ tv_shows[1].season_title = SeasonLabel(2)
    /\ locals.existing_seasons = <<>>
    /\ Len(Creates(calls)) = 1 /\ Creates(calls)[1].seasons = <<1, 2>>
    /\ Creates(calls)[1].code = 201
    /\ Len(summary.new_downloads) = 2
    /\ summary.new_downloads[1] = MovieEntry(movies[1])
    /\ summary.new_downloads[2].message.seasons = <<1, 2>>
    /\ summary.existing_downloads = <<>> /\ summary.errors = <<>>

\* C29: the steps of every pass come in this order: the feed fetch, a turn
\* for every movie in the list's order, a turn for every show in the list's
\* order, the manifest step, which calls the service only when it is
\* enabled, the reporter with the next wake time, the sleep; no show has its
\* turn before the last movie had its own, and the reporter does not run
\* before the last title had its turn
PassOrder ==
    [][/\ pc = "fetch" => pc' \in {"movies", "kometa"}
       /\ pc = "movies" =>
             \/ /\ pc' = "movies" /\ idx <= Len(movies) /\ idx' = idx + 1
                /\ req' = Unscoped(movies[idx], "movie")
                /\ Recorded' = Recorded + 1
             \/ pc' = "shows" /\ idx > Len(movies) /\ idx' = 1 /\ summary' = summary
       /\ pc = "shows" =>
             \/ /\ pc' = "shows" /\ idx <= Len(tv_shows) /\ idx' = idx + 1
                /\ req'.title = tv_shows[idx].title /\ req'.media_type = "tv"
                /\ Recorded' = Recorded + 1
             \/ pc' = "kometa" /\ idx > Len(tv_shows) /\ summary' = summary
       /\ pc = "kometa" =>
             /\ pc' = "report" /\ summary' = summary
             /\ calls' # <<>> => cfg.kometa_enabled
             /\ summary.errors # <<FetchError>> =>
                   Recorded = Len(movies) + Len(tv_shows)
       /\ pc = "report" => pc' = "sleep" /\ summary' = summary
       /\ pc = "sleep" => pc' = "fetch" /\ summary' = EmptySummary]_vars

\* a pass over a film and a show sleeps, both titles recorded
PassOrderWitness ==
    /\ pc = "sleep" /\ Len(movies) = 1 /\ Len(tv_shows) = 1
    /\ Recorded = 2 /\ cfg.kometa_enabled

\* the next wake time is computed and the pass is about to sleep
Scheduled == pc = "sleep"

\* 02:00 of the day of now, and of the day after
Today2 == 2 * TicksPerHour
Tomorrow2 == Today2 + 24 * TicksPerHour

FreshSummary ==
    [][/\ pc' = "fetch" => summary' = EmptySummary
       /\ pc = "fetch" =>
             /\ summary'.top_movies = movies' /\ summary'.top_shows = tv_shows'
             /\ summary'.new_downloads = <<>> /\ summary'.existing_downloads = <<>>
             /\ summary'.errors = (IF movies' = <<>> /\ tv_shows' = <<>>
                                   THEN <<FetchError>> ELSE <<>>)]_vars

\* the pass that follows a sleep is about to fetch, its summary empty
FreshSummaryWitness ==
    pc = "fetch" /\ calls = <<>> /\ summary = EmptySummary

\* C32: the manifest step and the reporter leave the five lists of the
\* summary as they were after the last title, and the manifest step makes
\* no create call
FrameKept ==
    [][(pc \in {"kometa", "report"}) =>
         (summary' = summary /\ Creates(calls') = <<>>)]_vars

\* the manifest step has searched for the two titles of a pass, whose
\* summary holds their two entries
FrameKeptWitness ==
    /\ pc = "report" /\ cfg.kometa_enabled /\ Len(calls) = 2
    /\ calls[1].path = PathSearch /\ Recorded = 2 /\ summary.errors = <<>>

\* the list the outcome of a turn is recorded in
ListOf(status) ==
    IF status = "new_request" THEN "new_downloads"
    ELSE IF status = "existing_request" THEN "existing_downloads"
    ELSE "errors"

\* list grew by one entry, at its end
Grew(before, after) == Len(after) = Len(before) + 1 /\ SubSeq(after, 1, Len(before)) = before

\* C33: in a pass whose fetch gave a title, the turn of each title appends
\* one entry to one of new_downloads, existing_downloads and errors, the
\* list its outcome names, errors for every outcome that is neither
\* new_request nor existing_request, and leaves the two others as they were;
\* after the last turn the three lists hold as many entries as titles
OneEntryEach ==
    [][/\ (pc \in {"movies", "shows"} /\ pc' = pc) =>
             LET list == ListOf(result'.status)
             IN  /\ IF list = "new_downloads"
                    THEN Grew(summary.new_downloads, summary'.new_downloads)
                    ELSE summary'.new_downloads = summary.new_downloads
                 /\ IF list = "existing_downloads"
                    THEN Grew(summary.existing_downloads, summary'.existing_downloads)
                    ELSE summary'.existing_downloads = summary.existing_downloads
                 /\ IF list = "errors"
                    THEN Grew(summary.errors, summary'.errors)
                    ELSE summary'.errors = summary.errors
       /\ (pc = "shows" /\ pc' = "kometa") =>
             Recorded = Len(summary.top_movies) + Len(summary.top_shows)]_vars

\* a dry run of a film and a show: both are recorded in errors
OneEntryEachWitness ==
    /\ pc = "shows" /\ idx = 2 /\ cfg.dry_run /\ Len(movies) = 1 /\ Len(tv_shows) = 1
    /\ result.status = "dry_run"
    /\ Len(summary.errors) = 2 /\ summary.new_downloads = <<>>
    /\ summary.existing_downloads = <<>>

\* the calls to the request service: the searches, the lookups, the creates
ServiceCalls(cs) ==
    LET ToService(c) == c.path \in {PathSearch, PathRequests, PathMedia, PathTv, PathCreate}
    IN  SelectSeq(cs, ToService)

\* C38: in a pass whose fetch returned two empty lists, errors holds the one
\* entry 'Failed to fetch Netflix top 10', new_downloads and
\* existing_downloads stay empty, and no search, lookup or create call is
\* made to the request service
FailedPassIsQuiet ==
    (pc \in {"kometa", "report", "sleep"} /\ movies = <<>> /\ tv_shows = <<>>) =>
        /\ summary.errors = <<FetchError>>
        /\ summary.new_downloads = <<>> /\ summary.existing_downloads = <<>>
        /\ ServiceCalls(calls) = <<>>

\* the manifest step, enabled, has run in a pass whose fetch failed
FailedPassIsQuietWitness ==
    /\ pc = "report" /\ cfg.kometa_enabled /\ movies = <<>> /\ tv_shows = <<>>
    /\ summary.errors = <<FetchError>> /\ calls = <<>>

\* the reporter's status of a title of the pass
Shown(title) == GetTitleStatus(title, summary)

\* the list holds the entry of the film
FilmIn(title, list) == \E k \in 1..Len(list) : list[k] = MovieEntry(title)

\* the list holds an entry of the show
ShowIn(title, list) ==
    \E k \in 1..Len(list) : list[k].text = title \o <<" ", "(", "TV) - ">>

\* C34: the status the reporter shows for a ranked title is that of the
\* title's own turn: 'New Request' only when the turn recorded the title in
\* new_downloads, 'Already Requested' only when it recorded it in
\* existing_downloads, 'Failed' only when it recorded it in neither
StatusAgrees ==
    pc = "report" =>
        /\ \A k \in 1..Len(movies) :
             LET t == movies[k]
             IN  /\ Shown(t) = "New Request" => FilmIn(t, summary.new_downloads)
                 /\ Shown(t) = "Already Requested" =>
                       FilmIn(t, summary.existing_downloads)
                 /\ Shown(t) = "Failed" =>
                       /\ ~FilmIn(t, summary.new_downloads)
                       /\ ~FilmIn(t, summary.existing_downloads)
        /\ \A k \in 1..Len(tv_shows) :
             LET t == tv_shows[k].title
             IN  /\ Shown(t) = "New Request" => ShowIn(t, summary.new_downloads)
                 /\ Shown(t) = "Already Requested" =>
                       ShowIn(t, summary.existing_downloads)
                 /\ Shown(t) = "Failed" =>
                       /\ ~ShowIn(t, summary.new_downloads)
                       /\ ~ShowIn(t, summary.existing_downloads)

\* C35: every create call of an entry point carries the identifier of a
\* search result whose kind is the kind requested, movie for a film and tv
\* for a show
KindMatches ==
    (HasReturned /\ Creates(calls) # <<>>) =>
        /\ Listed /\ Picked \in 1..Len(Hits)
        /\ Hits[Picked].mediaType = req.media_type

\* the seasons a ranged request still needs: 1..max_season less the existing
Missing == (1..req.max_season) \ Range(locals.existing_seasons)

\* C36: a call of an entry point ends after a bounded number of create
\* calls, whatever the service answers: at most 1 + max(1, number of
\* missing seasons) in the ranged request, at most 5 in the unscoped
\* request of a show and at most 2 in the unscoped request of a film
CreateBound ==
    HasReturned =>
        Len(Creates(calls)) <=
            IF IsRanged
            THEN 1 + (IF Cardinality(Missing) > 1 THEN Cardinality(Missing) ELSE 1)
            ELSE IF req.media_type = "tv" THEN 5 ELSE 2

\* the unscoped request of a show made five create calls: the bare call,
\* seasons 1, 2 and 3, and the bare call that imports
CreateBoundWitness ==
    /\ HasReturned /\ IsUnscopedTv /\ Len(Creates(calls)) = 5
    /\ Creates(calls)[4].seasons = <<3>> /\ Creates(calls)[5].seasons = <<>>

\* the create call failed with a message that holds the words
FailedHolding(c, sub) ==
    c.code \notin {0, 201, 409} /\ c.body # NotJson /\ Contains(ErrorMsg(c), sub)

\* C39: in the unscoped request no create call for a film carries a season
\* list; for a show the call with season [1] comes right after a bare call
\* that failed with 'Failed to fetch TV show details', '404' or 'Cannot
\* read properties of undefined', the calls with seasons [2] and [3] right
\* after a call that failed with 'No seasons available to request'; a bare
\* first call that fails with 'No seasons available to request' is the last
\* call and the outcome is existing_request
SeasonRetries ==
    (HasReturned /\ ~IsRanged) =>
        LET cs == Creates(calls)
        IN  /\ req.media_type = "movie" => \A k \in 1..Len(cs) : cs[k].seasons = <<>>
            /\ \A k \in 1..Len(cs) :
                 /\ cs[k].seasons = <<1>> =>
                       /\ k = 2 /\ cs[1].seasons = <<>>
                       /\ \/ FailedHolding(cs[1], SubTvDetails)
                          \/ FailedHolding(cs[1], Sub404)
                          \/ FailedHolding(cs[1], SubUndefined)
                 /\ cs[k].seasons \in {<<2>>, <<3>>} =>
                       /\ k > 1 /\ cs[k - 1].seasons = <<cs[k].seasons[1] - 1>>
                       /\ FailedHolding(cs[k - 1], SubNoSeasons)
                 /\ Len(cs[k].seasons) <= 1
            /\ (cs # <<>> /\ FailedHolding(cs[1], SubNoSeasons)) =>
                  Len(cs) = 1 /\ result.status = "existing_request"

\* the bare call for a show failed with 'No seasons available to request':
\* no retry, and the outcome is existing_request
SeasonRetriesWitness ==
    /\ HasReturned /\ IsUnscopedTv /\ Len(Creates(calls)) = 1
    /\ FailedWith(Creates(calls)[1], MsgNoSeasons)
    /\ result.status = "existing_request"

\* C37: in a call of an entry point every create call comes after the
\* search, which answered 200 and gave a match; in the ranged request it
\* also comes after a call of the existing-season lookup, and the seasons
\* it lists, when it lists any, are among 1..max_season less the existing
CreateAfterSearch ==
    HasReturned =>
        \A k \in 1..Len(calls) :
            calls[k].path = PathCreate =>
                /\ k > 1 /\ calls[1].path = PathSearch /\ calls[1].code = 200
                /\ locals.media_item.id # NoId
                /\ IsRanged =>
                      /\ \E j \in 2..(k - 1) :
                           calls[j].path \in {PathRequests, PathMedia, PathTv}
                      /\ Range(calls[k].seasons) \subseteq Missing

\* the ranged request up to season 2 of a show whose season 1 exists asked
\* for season 2 alone
CreateAfterSearchWitness ==
    /\ HasReturned /\ IsRanged /\ req.max_season = 2
    /\ locals.existing_seasons = <<1>> /\ Len(Creates(calls)) = 1
    /\ Creates(calls)[1].seasons = <<2>> /\ result.status = "new_request"

=============================================================================
